---- MODULE Spec2Model ----
(***************************************************************************)
(* A model of the analytics gateway's metering layer: the credit handlers  *)
(* (useCredits, getTopPages, generateInsights) over the relational store,  *)
(* and the fixed-window rate limiter (checkRateLimit) over the key-value   *)
(* store.  Every `await` of a handler is a point where another request may *)
(* run, so a handler is a sequence of atomic steps, one per store access.  *)
(***************************************************************************)
EXTENDS Integers, Sequences, FiniteSets, Bags, TLC

(***************************************************************************)
(* Bounds of the model.                                                    *)
(***************************************************************************)
NumProcs == 2          \* request slots that may be in flight together
MaxRequests == 3       \* requests started in a behaviour of Spec
MaxSeqRequests == 6    \* requests started in a behaviour of SpecSeq
MaxLimit == 2          \* largest limit passed to checkRateLimit
MaxTicks == 4          \* clock ticks in a behaviour of the limiter
MaxCalls == 3          \* checkRateLimit calls started in a behaviour
MaxGatewayRequests == 2 \* requests started in a behaviour of SpecGW
MaxGatewaySeqRequests == 3 \* requests started in a behaviour of SpecGWSeq
MaxUpstream == 3       \* Search Console requests one handler run may send
MaxIssued == 3         \* access tokens the OAuth endpoint issues in a behaviour
MaxInsightRequests == 3 \* requests started in a behaviour of SpecGen
MaxParams == 3          \* entries of a params object given to generateGSCacheKey
MaxRequired == 3        \* length of a requiredFields array

(***************************************************************************)
(* Program constants.                                                      *)
(***************************************************************************)
InitialCredits == 5    \* users.credits INTEGER DEFAULT 5
DefaultPageLimit == 10 \* getTopPages: let pageLimit = 10
MaxPageLimit == 50     \* getTopPages: Math.min(requestedLimit, 50)
DEFAULT_WINDOW == 60   \* rateLimiter.js: seconds
MsPerSecond == 1000    \* rateLimiter.js: window * 1000
DEFAULT_TTL == 3600    \* cache.js: seconds
InsightsRateLimit == 50 \* getInsights: checkRateLimit(..., 50, 60)

Procs == 1 .. NumProcs
Users == {1, 2}
Sites == {"site"}
Today == "d1"
\* The amounts a useCredits body carries: negative, zero, small, the whole grant.
Amounts == {0 - 1, 0, 1, 2, InitialCredits}
Purposes == {"export"}

\* The `limit` query parameter of getTopPages: absent, or a number.
LimitParams ==
    {[present |-> FALSE, value |-> 0]} \cup
    {[present |-> TRUE, value |-> v] : v \in {10, 11, 60}}

VARIABLES
    credits,      \* users.credits, by user id
    credit_logs,  \* the credit_logs table: a bag of rows (ids and timestamps left out)
    insights,     \* the insights table, in insertion (rowid) order
    pc,           \* each request slot's position in its handler
    req,          \* each slot's request
    user,         \* each slot's `user.credits`, as its SELECT read it
    local,        \* each slot's other locals (pageLimit, existingInsight, ...)
    resp,         \* each slot's response
    budget,       \* requests that may still start
    startCredits, \* history: the balances of the initial state
    track,        \* whether the histories below are recorded (the sequential runs)
    before,       \* history: users.credits and credit_logs when each slot's request began
    results,      \* history: per user, the useCredits requests completed
    clock,        \* Date.now(), in milliseconds
    kv,           \* the key-value namespace, by window key
    rlpc,         \* each slot's position in checkRateLimit
    rlreq,        \* each slot's arguments: key, limit, window
    rlnow,        \* each slot's `now`
    rlcur,        \* each slot's `current`
    rlresp,       \* each slot's result
    rlfailed,     \* history: whether a store operation of the slot's call threw
    calls,        \* checkRateLimit calls that may still start
    rlhist,       \* history: per window key, the calls completed
    gsc_refresh_token, \* users.gsc_refresh_token, by user id (0 for NULL)
    gsc_connected,     \* users.gsc_connected, by user id
    auth_store,        \* AUTH_STORE gsc_token:<user id>: the access token (0 for none)
    issued,            \* access tokens the OAuth token endpoint has issued
    gw,                \* each slot's token and upstream locals, and their history
    prev,              \* history: per user, the last generateInsights responses
    cache,             \* the response cache's key-value namespace, by cache key
    cc,                \* each slot's getCachedData or setCachedData call
    lastSet,           \* history: per cache key, the last setCachedData call
    keyCall,           \* two generateGSCacheKey calls: arguments and results
    fieldCheck,        \* a validateRequiredFields call: arguments and outcome
    wrapped            \* a call of a handler wrapped by withErrorHandling

creditVars == <<credits, credit_logs, insights, pc, req, user, local, resp,
                budget, startCredits, before, results>>

rlVars == <<clock, kv, rlpc, rlreq, rlnow, rlcur, rlresp, rlfailed, calls, rlhist>>

gwVars == <<gsc_refresh_token, gsc_connected, auth_store, issued, gw>>

cacheVars == <<cache, cc, lastSet>>

utilVars == <<keyCall, fieldCheck, wrapped>>

vars == <<creditVars, track, rlVars, gwVars, prev, cacheVars, utilVars>>

dbVars == <<credits, credit_logs, insights>>

NoReq == [handler |-> "none", userId |-> 0, amount |-> 0, purpose |-> "",
          limit |-> [present |-> FALSE, value |-> 0],
          siteUrl |-> "", force |-> FALSE]
\* gated: whether the request read the balance for its credit check; ai: how
\* the request's AI call ended ("none": no call); batches: the number of
\* times the request ran its database batch.
NoLocal == [pageLimit |-> 0, existing |-> 0, content |-> "", gated |-> FALSE,
            ai |-> "none", batches |-> 0]
\* remaining, reset: the X-RateLimit-Remaining and X-RateLimit-Reset headers
\* of an error response (0 where the response has none).
NoResp == [status |-> 0, body |-> "", credits |-> 0, limit |-> 0, content |-> "",
           payload |-> 0, remaining |-> 0, reset |-> 0]

\* accessToken: the handler's local; newToken: the access_token of the OAuth
\* answer; oauth, upstream, evicted: the requests sent to the OAuth token
\* endpoint, the requests sent to the Search Console API and the cache
\* deletions, counted over the request; oauthAtEvict: oauth at the last
\* deletion; firstStatus: the status of the first upstream answer; hit:
\* whether the last cache read found a token; acquired: whether the request
\* came to read the cache; lastStatus: the status of the last upstream
\* answer; oauthAtFail: oauth when the token endpoint refused a refresh (0
\* for never); checked: whether the request called checkRateLimit.
NoGw == [accessToken |-> 0, newToken |-> 0, oauth |-> 0, upstream |-> 0,
         evicted |-> 0, oauthAtEvict |-> 0, firstStatus |-> 0,
         hit |-> FALSE, acquired |-> FALSE,
         lastStatus |-> 0, oauthAtFail |-> 0, checked |-> FALSE]

Min(a, b) == IF a < b THEN a ELSE b

RECURSIVE SumRows(_, _)
SumRows(logs, rows) ==
    IF rows = {} THEN 0
    ELSE LET r == CHOOSE x \in rows : TRUE
         IN  r.amount * CopiesIn(r, logs) + SumRows(logs, rows \ {r})

\* The sum of the amounts of user u's rows of a credit_logs table.
SumAmounts(logs, u) ==
    SumRows(logs, {r \in BagToSet(logs) : r.user_id = u})

\* The response a finished slot holds is kept until the slot is reused.
Respond(p, r) ==
    /\ pc' = [pc EXCEPT ![p] = "done"]
    /\ resp' = [resp EXCEPT ![p] = r]

\* A slot takes a new request when it is free: it never ran a request, or
\* its last response was sent.
CanStart(p) == pc[p] \in {"idle", "done"} /\ budget > 0

Begin(p, first) ==
    /\ pc' = [pc EXCEPT ![p] = first]
    /\ user' = [user EXCEPT ![p] = 0]
    /\ local' = [local EXCEPT ![p] = NoLocal]
    /\ resp' = [resp EXCEPT ![p] = NoResp]
    /\ budget' = budget - 1
    /\ before' = IF track
                 THEN [before EXCEPT ![p] = [credits |-> credits,
                                             credit_logs |-> credit_logs,
                                             insights |-> insights]]
                 ELSE before
    /\ gw' = [gw EXCEPT ![p] = NoGw]

(***************************************************************************)
(* useCredits                                                              *)
(***************************************************************************)
\* const { amount = 1, purpose } = await request.json()
UseCreditsStart(p) ==
    /\ CanStart(p)
    /\ \E u \in Users, a \in Amounts, pu \in Purposes :
          req' = [req EXCEPT ![p] =
                    [NoReq EXCEPT !.handler = "useCredits", !.userId = u,
                                  !.amount = a, !.purpose = pu]]
    /\ Begin(p, "uc_select")
    /\ UNCHANGED <<dbVars, startCredits, track, results, rlVars, gsc_refresh_token, gsc_connected, auth_store, issued, prev, cacheVars, utilVars>>

\* SELECT credits FROM users WHERE id = ?
UseCreditsSelect(p) ==
    /\ pc[p] = "uc_select"
    /\ user' = [user EXCEPT ![p] = credits[req[p].userId]]
    /\ pc' = [pc EXCEPT ![p] = "uc_check"]
    /\ UNCHANGED <<dbVars, req, local, resp, budget, startCredits, track, before, results, rlVars, gwVars, prev, cacheVars, utilVars>>

InsufficientOrEqual(balance, amount) == balance <= amount
NonPositiveBalance(balance, amount) == balance <= 0
NegativeBalance(balance, amount) == balance < 0
\* if (user.credits < amount)
InsufficientCredits(balance, amount) == balance < amount

\* History of the completed useCredits requests of each user: how many
\* succeeded, how many were rejected, and whether any asked for an amount
\* other than 1.
NoResults == [u \in Users |-> [ok |-> 0, rejected |-> 0, others |-> FALSE]]

Record(p, status) ==
    results' =
        IF track
        THEN [results EXCEPT ![req[p].userId] =
                [ok |-> @.ok + (IF status = 200 THEN 1 ELSE 0),
                 rejected |-> @.rejected + (IF status = 402 THEN 1 ELSE 0),
                 others |-> @.others \/ req[p].amount # 1]]
        ELSE results

\* The 402 response: { error: 'Insufficient credits', credits: user.credits }
UseCreditsReject(p) ==
    /\ pc[p] = "uc_check"
    /\ InsufficientCredits(user[p], req[p].amount)
    /\ Respond(p, [NoResp EXCEPT !.status = 402, !.body = "insufficient",
                                 !.credits = user[p]])
    /\ Record(p, 402)
    /\ UNCHANGED <<dbVars, req, user, local, budget, startCredits, track, before, rlVars, gwVars, prev, cacheVars, utilVars>>

\* UPDATE users SET credits = credits - ? WHERE id = ?
UseCreditsUpdate(p) ==
    /\ pc[p] = "uc_check"
    /\ ~InsufficientCredits(user[p], req[p].amount)
    /\ credits' = [credits EXCEPT ![req[p].userId] = @ - req[p].amount]
    /\ pc' = [pc EXCEPT ![p] = "uc_insert"]
    /\ UNCHANGED <<credit_logs, insights, req, user, local, resp, budget,
                   startCredits, track, before, results, rlVars, gwVars, prev, cacheVars, utilVars>>

\* INSERT INTO credit_logs (user_id, amount, purpose, created_at), then the
\* 200 response: { success: true, credits: user.credits - amount }
UseCreditsInsert(p) ==
    /\ pc[p] = "uc_insert"
    /\ credit_logs' = credit_logs (+) SetToBag({[user_id |-> req[p].userId,
                                                  amount |-> req[p].amount,
                                                  purpose |-> req[p].purpose]})
    /\ Respond(p, [NoResp EXCEPT !.status = 200, !.body = "success",
                                 !.credits = user[p] - req[p].amount])
    /\ Record(p, 200)
    /\ UNCHANGED <<credits, insights, req, user, local, budget, startCredits, track, before, rlVars, gwVars, prev, cacheVars, utilVars>>

(***************************************************************************)
(* getTopPages                                                             *)
(***************************************************************************)
\* url.searchParams.get('limit')
TopPagesStart(p) ==
    /\ CanStart(p)
    /\ \E u \in Users, l \in LimitParams :
          req' = [req EXCEPT ![p] =
                    [NoReq EXCEPT !.handler = "getTopPages", !.userId = u,
                                  !.limit = l]]
    /\ Begin(p, "tp_select")
    /\ UNCHANGED <<dbVars, startCredits, track, results, rlVars, gsc_refresh_token, gsc_connected, auth_store, issued, prev, cacheVars, utilVars>>

\* limit present and parseInt(limit) > 10
AsksMoreThanDefault(l) == l.present /\ l.value > DefaultPageLimit

\* A balance of zero counts as credit.
NotInDebt(balance) == balance >= 0

\* if (user.credits > 0)
HasCredits(balance) == balance > 0

\* let pageLimit = 10; ... pageLimit = Math.min(requestedLimit, 50)
PageLimit(l, balance) ==
    IF AsksMoreThanDefault(l) /\ HasCredits(balance)
    THEN Min(l.value, MaxPageLimit)
    ELSE DefaultPageLimit

\* SELECT credits FROM users WHERE id = ?, then the page limit is chosen
TopPagesSelect(p) ==
    /\ pc[p] = "tp_select"
    /\ user' = [user EXCEPT ![p] = credits[req[p].userId]]
    /\ local' = [local EXCEPT ![p].pageLimit =
                    PageLimit(req[p].limit, credits[req[p].userId])]
    /\ pc' = [pc EXCEPT ![p] =
                IF PageLimit(req[p].limit, credits[req[p].userId]) > DefaultPageLimit
                THEN "tp_update" ELSE "tp_fetch"]
    /\ UNCHANGED <<dbVars, req, resp, budget, startCredits, track, before, results, rlVars, gwVars, prev, cacheVars, utilVars>>

\* UPDATE users SET credits = credits - 1 WHERE id = ?   (no credit_logs row)
TopPagesUpdate(p) ==
    /\ pc[p] = "tp_update"
    /\ credits' = [credits EXCEPT ![req[p].userId] = @ - 1]
    /\ pc' = [pc EXCEPT ![p] = "tp_fetch"]
    /\ UNCHANGED <<credit_logs, insights, req, user, local, resp, budget,
                   startCredits, track, before, results, rlVars, gwVars, prev, cacheVars, utilVars>>

\* The access token is fetched and the upstream queried; the token refresh may
\* fail (its response is returned) and so may the upstream (its status is
\* returned).  These outcomes are the environment's choice.
TopPagesFetch(p) ==
    /\ pc[p] = "tp_fetch"
    /\ \E o \in {"ok", "auth", "upstream"} :
          Respond(p,
            IF o = "ok"
            THEN [NoResp EXCEPT !.status = 200, !.body = "pages",
                      !.limit = local[p].pageLimit,
                      !.credits = user[p] -
                          (IF local[p].pageLimit > DefaultPageLimit THEN 1 ELSE 0)]
            ELSE IF o = "auth"
            THEN [NoResp EXCEPT !.status = 401, !.body = "auth"]
            ELSE [NoResp EXCEPT !.status = 500, !.body = "upstream"])
    /\ UNCHANGED <<dbVars, req, user, local, budget, startCredits, track, before, results, rlVars, gwVars, prev, cacheVars, utilVars>>

(***************************************************************************)
(* generateInsights                                                        *)
(***************************************************************************)
\* generateFallbackInsights(siteUrl, period): the document is fixed by its
\* arguments, which the requests of the model share.
FallbackDocument == "fallback"
\* The documents the AI provider may return: complete ones, and one that
\* lacks required keys.
PartialDocument == "partial"
AiContents == {"c1", "c2", PartialDocument}
\* The ways the AI call yields no document: the fetch throws or is aborted by
\* the timeout, a non-2xx status, a body without choices[0].message, content
\* that is not JSON.
AiFailures == {"network", "status", "format", "notjson"}

\* The required-fields check of a parsed document.
Complete(c) == c # PartialDocument
\* A document lacking required keys is given default opportunities,
\* keywordInsights and keyMetricChanges and is used as it is then.
PatchedDocument == "partial+defaults"
\* A document lacking required keys is replaced by the fallback document.
FallbackWhenPartial(c) == IF Complete(c) THEN c ELSE FallbackDocument
Patch(c) == IF Complete(c) THEN c ELSE PatchedDocument

\* History, per user, of the last two responses of consecutive generateInsights
\* requests without the force flag that went past the early exits: the
\* content of each and the balance before each; n counts them, up to 2.
NoPrevEntry == [n |-> 0, first |-> "", firstBefore |-> 0,
                content |-> "", lastBefore |-> 0]
NoPrev == [u \in Users |-> NoPrevEntry]

RecordInsight(p, u, content, regular) ==
    prev' =
        IF track
        THEN [prev EXCEPT ![u] =
                IF regular
                THEN [n |-> Min(@.n + 1, 2),
                      first |-> @.content,
                      firstBefore |-> @.lastBefore,
                      content |-> content,
                      lastBefore |-> before[p].credits[u]]
                ELSE NoPrevEntry]
        ELSE prev

\* The exits taken before any store access: no siteUrl (400), mock data
\* asked for (200), no OpenAI key configured (500).
InsightsEarlyReturn(p) ==
    /\ CanStart(p)
    /\ \E u \in Users, e \in {"nosite", "mock", "nokey"} :
          /\ req' = [req EXCEPT ![p] =
                       [NoReq EXCEPT !.handler = "generateInsights", !.userId = u,
                                     !.siteUrl = IF e = "nosite" THEN ""
                                                 ELSE CHOOSE x \in Sites : TRUE]]
          /\ resp' = [resp EXCEPT ![p] =
                        [NoResp EXCEPT !.status = IF e = "nosite" THEN 400
                                                  ELSE IF e = "mock" THEN 200 ELSE 500,
                                       !.body = e]]
          /\ RecordInsight(p, u, "", FALSE)
    /\ pc' = [pc EXCEPT ![p] = "done"]
    /\ user' = [user EXCEPT ![p] = 0]
    /\ local' = [local EXCEPT ![p] = NoLocal]
    /\ budget' = budget - 1
    /\ UNCHANGED <<dbVars, startCredits, track, before, results, rlVars, gwVars, cacheVars, utilVars>>

\* The outer catch block.  Both of its responses are built with headers:
\* corsHeaders, a const declared inside the try block and not in scope in the
\* catch block: building either throws a ReferenceError, the second one out
\* of the handler, whose promise is rejected.  No response is returned.
Rejected == [NoResp EXCEPT !.body = "rejected"]

\* await clonedRequest.json() throws: the body is not JSON.
InsightsParseFail(p) ==
    /\ CanStart(p)
    /\ \E u \in Users :
          /\ req' = [req EXCEPT ![p] =
                       [NoReq EXCEPT !.handler = "generateInsights", !.userId = u]]
          /\ RecordInsight(p, u, "", FALSE)
    /\ pc' = [pc EXCEPT ![p] = "done"]
    /\ resp' = [resp EXCEPT ![p] = Rejected]
    /\ user' = [user EXCEPT ![p] = 0]
    /\ local' = [local EXCEPT ![p] = NoLocal]
    /\ budget' = budget - 1
    /\ UNCHANGED <<dbVars, startCredits, track, before, results, rlVars, gwVars, cacheVars, utilVars>>

\* One of the three SELECTs throws: the database is unavailable.
InsightsReadFail(p) ==
    /\ pc[p] \in {"gi_existing", "gi_content", "gi_credits"}
    /\ Respond(p, Rejected)
    /\ RecordInsight(p, req[p].userId, "", FALSE)
    /\ UNCHANGED <<dbVars, req, user, local, budget, startCredits, track, before, results, rlVars, gwVars, cacheVars, utilVars>>

\* const forcedRefresh = url.searchParams.has('force')
InsightsStart(p) ==
    /\ CanStart(p)
    /\ \E u \in Users, s \in Sites, f \in BOOLEAN :
          req' = [req EXCEPT ![p] =
                    [NoReq EXCEPT !.handler = "generateInsights", !.userId = u,
                                  !.siteUrl = s, !.force = f]]
    /\ Begin(p, "gi_existing")
    /\ UNCHANGED <<dbVars, startCredits, track, results, rlVars, gsc_refresh_token, gsc_connected, auth_store, issued, prev, cacheVars, utilVars>>

\* The rows of the insights table a lookup matches.
Matching(rows, u, s, d) ==
    {i \in 1 .. Len(rows) : /\ rows[i].user_id = u
                            /\ rows[i].site_url = s
                            /\ rows[i].date = d}

\* SELECT id FROM insights WHERE user_id = ? AND site_url = ? AND date = ?
\* AND type = 'overall', .first(): the id of the first such row, 0 for none.
ExistingInsight(rows, u, s, d) ==
    LET hits == Matching(rows, u, s, d)
    IN  IF hits = {} THEN 0 ELSE CHOOSE i \in hits : \A j \in hits : i <= j

InsightsSelectExisting(p) ==
    /\ pc[p] = "gi_existing"
    /\ LET id == ExistingInsight(insights, req[p].userId, req[p].siteUrl, Today)
       IN  /\ local' = [local EXCEPT ![p].existing = id]
           \* if (existingInsight && !forcedRefresh)
           /\ pc' = [pc EXCEPT ![p] = IF id # 0 /\ ~req[p].force
                                      THEN "gi_content" ELSE "gi_credits"]
    /\ UNCHANGED <<dbVars, req, user, resp, budget, startCredits, track, before, results, rlVars, gwVars, prev, cacheVars, utilVars>>

\* The response of a request that went past the early exits.
RespondInsight(p, r) ==
    /\ Respond(p, r)
    /\ RecordInsight(p, req[p].userId, r.content, ~req[p].force)

\* SELECT content FROM insights WHERE id = ?, returned as the response
InsightsSelectContent(p) ==
    /\ pc[p] = "gi_content"
    /\ RespondInsight(p, [NoResp EXCEPT !.status = 200, !.body = "stored",
                                        !.content = insights[local[p].existing].content])
    /\ UNCHANGED <<dbVars, req, user, local, budget, startCredits, track, before, results, rlVars, gwVars, cacheVars, utilVars>>

\* SELECT credits FROM users WHERE id = ?
InsightsSelectCredits(p) ==
    /\ pc[p] = "gi_credits"
    /\ user' = [user EXCEPT ![p] = credits[req[p].userId]]
    /\ local' = [local EXCEPT ![p].gated = TRUE]
    /\ pc' = [pc EXCEPT ![p] = "gi_check"]
    /\ UNCHANGED <<dbVars, req, resp, budget, startCredits, track, before, results, rlVars, gwVars, prev, cacheVars, utilVars>>

\* if (user.credits < 1): the 402 response
InsightsReject(p) ==
    /\ pc[p] = "gi_check"
    /\ InsufficientCredits(user[p], 1)
    /\ RespondInsight(p, [NoResp EXCEPT !.status = 402, !.body = "insufficient"])
    /\ UNCHANGED <<dbVars, req, user, local, budget, startCredits, track, before, results, rlVars, gwVars, cacheVars, utilVars>>

\* The configured key does not start with "sk-": the fallback document is
\* returned and no request is sent.
InsightsBadKey(p) ==
    /\ pc[p] = "gi_check"
    /\ ~InsufficientCredits(user[p], 1)
    /\ RespondInsight(p, [NoResp EXCEPT !.status = 200, !.body = "fallback",
                                        !.content = FallbackDocument])
    /\ UNCHANGED <<dbVars, req, user, local, budget, startCredits, track, before, results, rlVars, gwVars, cacheVars, utilVars>>

\* The OpenAI call yields no document: the fallback document is returned with
\* status 200 and nothing is stored or charged.
InsightsAiFail(p) ==
    /\ pc[p] = "gi_check"
    /\ ~InsufficientCredits(user[p], 1)
    /\ \E k \in AiFailures : local' = [local EXCEPT ![p].ai = k]
    /\ RespondInsight(p, [NoResp EXCEPT !.status = 200, !.body = "fallback",
                                        !.content = FallbackDocument])
    /\ UNCHANGED <<dbVars, req, user, budget, startCredits, track, before, results, rlVars, gwVars, cacheVars, utilVars>>

\* The OpenAI call succeeds and its content parses; required keys it lacks
\* are filled in.
InsightsAiOk(p) ==
    /\ pc[p] = "gi_check"
    /\ ~InsufficientCredits(user[p], 1)
    /\ \E c \in AiContents :
          local' = [local EXCEPT ![p].content = Patch(c),
                                 ![p].ai = IF Complete(c) THEN "ok" ELSE "missingkeys"]
    /\ pc' = [pc EXCEPT ![p] = "gi_batch"]
    /\ UNCHANGED <<dbVars, req, user, resp, budget, startCredits, track, before, results, rlVars, gwVars, prev, cacheVars, utilVars>>

\* env.DB.batch([INSERT OR REPLACE INTO insights ..., UPDATE users SET
\* credits = credits - 1 WHERE id = ?]): one transaction.  The insights table
\* has no key but its id, so the insert adds a row.  No credit_logs row.
InsightsBatch(p) ==
    /\ pc[p] = "gi_batch"
    /\ insights' = Append(insights, [user_id |-> req[p].userId,
                                     site_url |-> req[p].siteUrl,
                                     date |-> Today,
                                     content |-> local[p].content])
    /\ credits' = [credits EXCEPT ![req[p].userId] = @ - 1]
    /\ local' = [local EXCEPT ![p].batches = @ + 1]
    /\ RespondInsight(p, [NoResp EXCEPT !.status = 200, !.body = "generated",
                                        !.content = local[p].content])
    /\ UNCHANGED <<credit_logs, req, user, budget, startCredits, track, before, results, rlVars, gwVars, cacheVars, utilVars>>

\* The INSERT applies and the UPDATE does not.
InsightsInsertOnly(p) ==
    /\ pc[p] = "gi_batch"
    /\ insights' = Append(insights, [user_id |-> req[p].userId,
                                     site_url |-> req[p].siteUrl,
                                     date |-> Today,
                                     content |-> local[p].content])
    /\ local' = [local EXCEPT ![p].batches = @ + 1]
    /\ RespondInsight(p, [NoResp EXCEPT !.status = 200, !.body = "fallback",
                                        !.content = FallbackDocument])
    /\ UNCHANGED <<credits, credit_logs, req, user, budget, startCredits, track,
                   before, results, rlVars, gwVars, cacheVars, utilVars>>

\* The batch fails: neither statement applies, the error is thrown to the
\* catch of the parsing block and the fallback document is returned.
InsightsBatchFail(p) ==
    /\ pc[p] = "gi_batch"
    /\ local' = [local EXCEPT ![p].batches = @ + 1]
    /\ RespondInsight(p, [NoResp EXCEPT !.status = 200, !.body = "fallback",
                                        !.content = FallbackDocument])
    /\ UNCHANGED <<dbVars, req, user, budget, startCredits, track, before, results, rlVars, gwVars, cacheVars, utilVars>>

(***************************************************************************)
(* checkRateLimit                                                          *)
(***************************************************************************)
Keys == {"rate_limit:gsc:1:insights"}
Limits == 0 .. MaxLimit
\* Window lengths in seconds: the default, and twice the default.
Windows == {DEFAULT_WINDOW, 2 * DEFAULT_WINDOW}
\* The clock advances by half the default window.
TickMs == (DEFAULT_WINDOW * MsPerSecond) \div 2
MaxClock == MaxTicks * TickMs

\* window * 1000
WindowMs(window) == window * MsPerSecond

\* Math.floor(now / (window * 1000))
WindowIndex(now, window) == now \div WindowMs(window)

\* `${key}:${Math.floor(now / (window * 1000))}`
WindowKey(key, now, window) == <<key, WindowIndex(now, window)>>

WindowKeys == Keys \X (0 .. WindowIndex(MaxClock, DEFAULT_WINDOW))

NoEntry == [present |-> FALSE, count |-> 0, reset |-> 0, expiresAt |-> 0]
NoCall == [key |-> "", limit |-> 0, window |-> 0]
NoCurrent == [stored |-> FALSE, count |-> 0, reset |-> 0]
NoResult == [kind |-> "none", limited |-> FALSE, remaining |-> 0, reset |-> 0]
NoHist == [n |-> 0, allowed |-> 0, limit |-> 0, window |-> 0,
           mixed |-> FALSE, failed |-> FALSE, limitedResets |-> {}]

MyKey(p) == WindowKey(rlreq[p].key, rlnow[p], rlreq[p].window)

\* History of the calls completed on each window key: how many, how many of
\* them were reported not-limited, the limit and window of the first, whether
\* a store operation failed, and the reset times of the limited results.  A
\* key on which some call was not one of a sequence inside that window (it
\* had another limit or window length, or it returned after the window had
\* ended) is only remembered as mixed, with those reset times.
MixedHist == [NoHist EXCEPT !.n = 1, !.mixed = TRUE]

RecordCall(p, r, threw) ==
    rlhist' =
        IF track
        THEN LET h == rlhist[MyKey(p)]
                 mixed == \/ h.mixed
                          \/ h.n > 0 /\ (h.limit # rlreq[p].limit
                                         \/ h.window # rlreq[p].window)
                          \/ WindowIndex(clock, rlreq[p].window)
                                # WindowIndex(rlnow[p], rlreq[p].window)
                 resets == h.limitedResets \cup (IF r.limited THEN {r.reset} ELSE {})
             IN  [rlhist EXCEPT ![MyKey(p)] =
                    IF mixed THEN [MixedHist EXCEPT !.limitedResets = resets]
                    ELSE [n |-> h.n + 1,
                          allowed |-> h.allowed + (IF r.limited THEN 0 ELSE 1),
                          limit |-> IF h.n = 0 THEN rlreq[p].limit ELSE h.limit,
                          window |-> IF h.n = 0 THEN rlreq[p].window ELSE h.window,
                          mixed |-> FALSE,
                          failed |-> h.failed \/ threw,
                          limitedResets |-> resets]]
        ELSE rlhist

Return(p, r, threw) ==
    /\ rlpc' = [rlpc EXCEPT ![p] = "done"]
    /\ rlresp' = [rlresp EXCEPT ![p] = r]
    /\ rlfailed' = [rlfailed EXCEPT ![p] = threw]
    /\ RecordCall(p, r, threw)

\* const now = Date.now(); the arguments are the caller's.
RLStart(p) ==
    /\ rlpc[p] \in {"idle", "done"}
    /\ calls > 0
    /\ \E k \in Keys, l \in Limits, w \in Windows :
          rlreq' = [rlreq EXCEPT ![p] = [key |-> k, limit |-> l, window |-> w]]
    /\ rlnow' = [rlnow EXCEPT ![p] = clock]
    /\ rlcur' = [rlcur EXCEPT ![p] = NoCurrent]
    /\ rlresp' = [rlresp EXCEPT ![p] = NoResult]
    /\ rlfailed' = [rlfailed EXCEPT ![p] = FALSE]
    /\ rlpc' = [rlpc EXCEPT ![p] = "rl_get"]
    /\ calls' = calls - 1
    /\ UNCHANGED <<creditVars, gwVars, prev, track, clock, kv, rlhist, cacheVars, utilVars>>

\* A window without an entry counts the call that asks.
CountsTheCaller(entry, now, window) ==
    IF entry.present
    THEN [stored |-> TRUE, count |-> entry.count, reset |-> entry.reset]
    ELSE [stored |-> FALSE, count |-> 1, reset |-> now + WindowMs(window)]

\* await kv.get(windowKey, 'json') || { count: 0, reset: now + (window * 1000) }
Current(entry, now, window) ==
    IF entry.present
    THEN [stored |-> TRUE, count |-> entry.count, reset |-> entry.reset]
    ELSE [stored |-> FALSE, count |-> 0, reset |-> now + WindowMs(window)]

\* if (now > current.reset)
WindowExpired(now, current) == now > current.reset

LimitExceeded(current, limit) == current.count > limit
\* if (current.count >= limit)
LimitReached(current, limit) == current.count >= limit

\* { limited: true, remaining: 0, reset: current.reset }
Limited(current) ==
    [kind |-> "return", limited |-> TRUE, remaining |-> 0,
     reset |-> current.reset]

\* { limited: false, remaining: limit - 1, reset: now + (window * 1000) }
FreshWindow(now, limit, window) ==
    [kind |-> "return", limited |-> FALSE, remaining |-> limit - 1,
     reset |-> now + WindowMs(window)]

CountedBeforeIncrement(current, limit) ==
    [kind |-> "return", limited |-> FALSE, remaining |-> limit - current.count,
     reset |-> current.reset]
\* { limited: false, remaining: limit - (current.count + 1), reset: current.reset }
Counted(current, limit) ==
    [kind |-> "return", limited |-> FALSE,
     remaining |-> limit - (current.count + 1),
     reset |-> current.reset]

FailClosed(limit, now, window) ==
    [kind |-> "return", limited |-> TRUE, remaining |-> 0,
     reset |-> now + WindowMs(window)]
\* catch: { limited: false, remaining: limit, reset: Date.now() + (window * 1000) }
FailOpen(limit, now, window) ==
    [kind |-> "return", limited |-> FALSE, remaining |-> limit,
     reset |-> now + WindowMs(window)]

\* The read succeeds; the branch is chosen from what it returned.  A call that
\* finds the limit reached returns at once and writes nothing.
RLGet(p) ==
    /\ rlpc[p] = "rl_get"
    /\ LET cur == Current(kv[MyKey(p)], rlnow[p], rlreq[p].window)
       IN  /\ rlcur' = [rlcur EXCEPT ![p] = cur]
           /\ IF WindowExpired(rlnow[p], cur)
              THEN /\ rlpc' = [rlpc EXCEPT ![p] = "rl_reset"]
                   /\ UNCHANGED <<rlresp, rlfailed, rlhist>>
              ELSE IF LimitReached(cur, rlreq[p].limit)
              THEN Return(p, Limited(cur), FALSE)
              ELSE /\ rlpc' = [rlpc EXCEPT ![p] = "rl_incr"]
                   /\ UNCHANGED <<rlresp, rlfailed, rlhist>>
    /\ UNCHANGED <<creditVars, gwVars, prev, track, clock, kv, rlreq, rlnow, calls, cacheVars, utilVars>>

\* kv.put(windowKey, { count: 1, reset: now + window * 1000 },
\*        { expirationTtl: window })
RLPutReset(p) ==
    /\ rlpc[p] = "rl_reset"
    /\ kv' = [kv EXCEPT ![MyKey(p)] =
                [present |-> TRUE, count |-> 1,
                 reset |-> rlnow[p] + WindowMs(rlreq[p].window),
                 expiresAt |-> clock + WindowMs(rlreq[p].window)]]
    /\ Return(p, FreshWindow(rlnow[p], rlreq[p].limit, rlreq[p].window), FALSE)
    /\ UNCHANGED <<creditVars, gwVars, prev, track, clock, rlreq, rlnow, rlcur, calls, cacheVars, utilVars>>

\* kv.put(windowKey, { count: current.count + 1, reset: current.reset },
\*        { expirationTtl: window })
RLPutIncr(p) ==
    /\ rlpc[p] = "rl_incr"
    /\ kv' = [kv EXCEPT ![MyKey(p)] =
                [present |-> TRUE, count |-> rlcur[p].count + 1,
                 reset |-> rlcur[p].reset,
                 expiresAt |-> clock + WindowMs(rlreq[p].window)]]
    /\ Return(p, Counted(rlcur[p], rlreq[p].limit), FALSE)
    /\ UNCHANGED <<creditVars, gwVars, prev, track, clock, rlreq, rlnow, rlcur, calls, cacheVars, utilVars>>

\* kv.get or kv.put throws: the catch block answers, with a fresh Date.now().
RLStoreFails(p) ==
    /\ rlpc[p] \in {"rl_get", "rl_reset", "rl_incr"}
    /\ Return(p, FailOpen(rlreq[p].limit, clock, rlreq[p].window), TRUE)
    /\ UNCHANGED <<creditVars, gwVars, prev, track, clock, kv, rlreq, rlnow, rlcur, calls, cacheVars, utilVars>>

\* Time passes; the store drops the entries whose expirationTtl has run out.
Tick ==
    /\ clock + TickMs <= MaxClock
    /\ clock' = clock + TickMs
    /\ kv' = [wk \in WindowKeys |->
                IF kv[wk].present /\ kv[wk].expiresAt <= clock + TickMs
                THEN NoEntry ELSE kv[wk]]
    /\ UNCHANGED <<creditVars, gwVars, prev, track, rlpc, rlreq, rlnow, rlcur, rlresp, rlfailed, calls, rlhist, cacheVars, utilVars>>

(***************************************************************************)
(* Token acquisition, refreshToken, handleCallback and the handlers that   *)
(* query the Search Console API                                            *)
(***************************************************************************)
GatewayHandlers == {"getProperties", "fetchGSCData", "getTopPages", "getInsights"}
\* The statuses the Search Console API answers with.
UpstreamStatuses == {200, 401, 403, 404, 500}
\* The handlers whose module binds the name refreshToken: insights.js, where
\* getInsights is defined, does not import it.
BindsRefreshToken(h) == h # "getInsights"

\* getProperties(request, env)
GetPropertiesStart(p) ==
    /\ CanStart(p)
    /\ \E u \in Users :
          req' = [req EXCEPT ![p] =
                    [NoReq EXCEPT !.handler = "getProperties", !.userId = u]]
    /\ Begin(p, "gp_select")
    /\ UNCHANGED <<dbVars, startCredits, track, results, rlVars,
                   gsc_refresh_token, gsc_connected, auth_store, issued, prev, cacheVars, utilVars>>

\* SELECT gsc_connected, gsc_refresh_token FROM users WHERE id = ?
\* if (!user || !user.gsc_connected || !user.gsc_refresh_token): status 400
GetPropertiesSelect(p) ==
    /\ pc[p] = "gp_select"
    /\ LET u == req[p].userId
       IN  IF ~gsc_connected[u] \/ gsc_refresh_token[u] = 0
           THEN Respond(p, [NoResp EXCEPT !.status = 400, !.body = "not_connected"])
           ELSE /\ pc' = [pc EXCEPT ![p] = "tk_get"]
                /\ UNCHANGED resp
    /\ UNCHANGED <<dbVars, req, user, local, budget, startCredits, track, before,
                   results, rlVars, gwVars, prev, cacheVars, utilVars>>

\* fetchGSCData(request, env)
FetchGSCDataStart(p) ==
    /\ CanStart(p)
    /\ \E u \in Users :
          req' = [req EXCEPT ![p] =
                    [NoReq EXCEPT !.handler = "fetchGSCData", !.userId = u]]
    /\ Begin(p, "tk_get")
    /\ UNCHANGED <<dbVars, startCredits, track, results, rlVars,
                   gsc_refresh_token, gsc_connected, auth_store, issued, prev, cacheVars, utilVars>>

\* getTopPages, after its page limit is chosen: the access token is read.
TopPagesToken(p) ==
    /\ pc[p] = "tp_fetch"
    /\ pc' = [pc EXCEPT ![p] = "tk_get"]
    /\ UNCHANGED <<dbVars, req, user, local, resp, budget, startCredits, track,
                   before, results, rlVars, gwVars, prev, cacheVars, utilVars>>

\* `rate_limit:gsc:${userId}:${endpoint}`
generateGSCRateLimitKey(userId, endpoint) ==
    "rate_limit:gsc:" \o ToString(userId) \o ":" \o endpoint

\* The users whose limiter key is one of the keys of the store.
KeyedUsers == {u \in Users : generateGSCRateLimitKey(u, "insights") \in Keys}

\* getInsights: validateRequiredFields(body, ...) throws a ValidationError
\* (status 400) when a field is missing.
GetInsightsBegin(p, users, next) ==
    /\ CanStart(p)
    /\ \E u \in users, valid \in BOOLEAN :
          /\ req' = [req EXCEPT ![p] =
                       [NoReq EXCEPT !.handler = "getInsights", !.userId = u]]
          /\ pc' = [pc EXCEPT ![p] = IF valid THEN next ELSE "done"]
          /\ resp' = [resp EXCEPT ![p] =
                        IF valid THEN NoResp
                        ELSE [NoResp EXCEPT !.status = 400, !.body = "validation"]]
    /\ user' = [user EXCEPT ![p] = 0]
    /\ local' = [local EXCEPT ![p] = NoLocal]
    /\ budget' = budget - 1
    /\ gw' = [gw EXCEPT ![p] = NoGw]
    /\ UNCHANGED <<dbVars, startCredits, track, before, results, rlVars,
                   gsc_refresh_token, gsc_connected, auth_store, issued, prev, cacheVars, utilVars>>

\* getInsights with the limiter's answer left open (GetInsightsRateLimit).
GetInsightsStart(p) == GetInsightsBegin(p, Users, "in_limit")

\* getInsights with the limiter it calls (GetInsightsCheck).
GetInsightsCall(p) == GetInsightsBegin(p, KeyedUsers, "in_check")

NeverBlocks(rateLimit) == FALSE
\* if (rateLimit.limited)
Blocks(rateLimit) == rateLimit.limited

\* throw new RateLimitError('Rate limit exceeded', rateLimit.remaining,
\* rateLimit.reset); withErrorHandling answers it with createErrorResponse:
\* status 429 and the X-RateLimit-Remaining and X-RateLimit-Reset headers.
RateLimitResponse(rateLimit) ==
    [NoResp EXCEPT !.status = 429, !.body = "rate_limited",
                   !.remaining = rateLimit.remaining, !.reset = rateLimit.reset]

\* getInsights: checkRateLimit(env.GSC_CACHE, rateLimitKey, 50, 60); a limited
\* answer is thrown as a RateLimitError (status 429).  What the limiter
\* answers is left open here.
GetInsightsRateLimit(p) ==
    /\ pc[p] = "in_limit"
    /\ gw' = [gw EXCEPT ![p].checked = TRUE]
    /\ \E limited \in BOOLEAN :
          IF limited
          THEN Respond(p, [NoResp EXCEPT !.status = 429, !.body = "rate_limited"])
          ELSE /\ pc' = [pc EXCEPT ![p] = "tk_get"]
               /\ UNCHANGED resp
    /\ UNCHANGED <<dbVars, req, user, local, budget, startCredits, track, before,
                   results, rlVars,
                   gsc_refresh_token, gsc_connected, auth_store, issued, prev, cacheVars, utilVars>>

\* getInsights: checkRateLimit(env.GSC_CACHE, rateLimitKey, 50, 60) is
\* called; its steps are RLGet, RLPutReset, RLPutIncr and RLStoreFails.
GetInsightsCheck(p) ==
    /\ pc[p] = "in_check"
    /\ rlreq' = [rlreq EXCEPT ![p] =
                   [key |-> generateGSCRateLimitKey(req[p].userId, "insights"),
                    limit |-> InsightsRateLimit, window |-> DEFAULT_WINDOW]]
    /\ rlnow' = [rlnow EXCEPT ![p] = clock]
    /\ rlcur' = [rlcur EXCEPT ![p] = NoCurrent]
    /\ rlresp' = [rlresp EXCEPT ![p] = NoResult]
    /\ rlfailed' = [rlfailed EXCEPT ![p] = FALSE]
    /\ rlpc' = [rlpc EXCEPT ![p] = "rl_get"]
    /\ pc' = [pc EXCEPT ![p] = "in_wait"]
    /\ gw' = [gw EXCEPT ![p].checked = TRUE]
    /\ UNCHANGED <<dbVars, req, user, local, resp, budget, startCredits, track,
                   before, results, clock, kv, calls, rlhist,
                   gsc_refresh_token, gsc_connected, auth_store, issued, prev, cacheVars, utilVars>>

\* getInsights: checkRateLimit has returned.
GetInsightsLimited(p) ==
    /\ pc[p] = "in_wait"
    /\ rlpc[p] = "done"
    /\ IF Blocks(rlresp[p])
       THEN Respond(p, RateLimitResponse(rlresp[p]))
       ELSE /\ pc' = [pc EXCEPT ![p] = "tk_get"]
            /\ UNCHANGED resp
    /\ UNCHANGED <<dbVars, req, user, local, budget, startCredits, track, before,
                   results, rlVars, gwVars, prev, cacheVars, utilVars>>

NeverHit(token) == FALSE
\* if (!accessToken) is not taken
CacheHit(token) == token # 0

\* let accessToken = await env.AUTH_STORE.get(`gsc_token:${userId}`)
\* A miss calls refreshToken(request, env); where that name is not bound the
\* call throws a ReferenceError, which withErrorHandling answers with 500.
TokenGet(p) ==
    /\ pc[p] = "tk_get"
    /\ LET t == auth_store[req[p].userId]
       IN  IF CacheHit(t)
           THEN /\ gw' = [gw EXCEPT ![p].accessToken = t, ![p].hit = TRUE,
                                    ![p].acquired = TRUE]
                /\ pc' = [pc EXCEPT ![p] = "up_fetch"]
                /\ UNCHANGED resp
           ELSE IF BindsRefreshToken(req[p].handler)
           THEN /\ gw' = [gw EXCEPT ![p].hit = FALSE, ![p].acquired = TRUE]
                /\ pc' = [pc EXCEPT ![p] = "rt_select"]
                /\ UNCHANGED resp
           ELSE /\ gw' = [gw EXCEPT ![p].hit = FALSE, ![p].acquired = TRUE]
                /\ Respond(p, [NoResp EXCEPT !.status = 500, !.body = "internal"])
    /\ UNCHANGED <<dbVars, req, user, local, budget, startCredits, track, before,
                   results, rlVars,
                   gsc_refresh_token, gsc_connected, auth_store, issued, prev, cacheVars, utilVars>>

\* The user id of a token whose users row does not exist.
NoUser == 0

\* user && user.gsc_refresh_token, of the row SELECTed for user id u
StoredRefreshToken(u) == IF u \in Users THEN gsc_refresh_token[u] ELSE 0

\* POST /auth/refresh: refreshToken(request, env) as a handler of its own.
RefreshStart(p) ==
    /\ CanStart(p)
    /\ \E u \in Users \cup {NoUser} :
          req' = [req EXCEPT ![p] =
                    [NoReq EXCEPT !.handler = "refreshToken", !.userId = u]]
    /\ Begin(p, "rt_select")
    /\ UNCHANGED <<dbVars, startCredits, track, results, rlVars,
                   gsc_refresh_token, gsc_connected, auth_store, issued, prev, cacheVars, utilVars>>

\* refreshToken: SELECT gsc_refresh_token FROM users WHERE id = ?
\* if (!user || !user.gsc_refresh_token): 'No refresh token found', status
\* 400, which the handler returns as it is.
RefreshSelect(p) ==
    /\ pc[p] = "rt_select"
    /\ IF StoredRefreshToken(req[p].userId) = 0
       THEN Respond(p, [NoResp EXCEPT !.status = 400, !.body = "no_refresh_token"])
       ELSE /\ pc' = [pc EXCEPT ![p] = "rt_oauth"]
            /\ UNCHANGED resp
    /\ UNCHANGED <<dbVars, req, user, local, budget, startCredits, track, before,
                   results, rlVars, gwVars, prev, cacheVars, utilVars>>

\* refreshToken: the token endpoint answers with a non-success status.
RefreshOAuthFail(p) ==
    /\ pc[p] = "rt_oauth"
    /\ gw' = [gw EXCEPT ![p].oauth = @ + 1, ![p].oauthAtFail = gw[p].oauth + 1]
    /\ pc' = [pc EXCEPT ![p] = "rt_disconnect"]
    /\ UNCHANGED <<dbVars, req, user, local, resp, budget, startCredits, track,
                   before, results, rlVars,
                   gsc_refresh_token, gsc_connected, auth_store, issued, prev, cacheVars, utilVars>>

\* 'Failed to refresh token', status 401, the flag left as it is.
RefreshFailsOnly(p) ==
    /\ pc[p] = "rt_disconnect"
    /\ Respond(p, [NoResp EXCEPT !.status = 401, !.body = "refresh_failed"])
    /\ UNCHANGED <<dbVars, req, user, local, budget, startCredits, track, before,
                   results, rlVars, gwVars, prev, cacheVars, utilVars>>

\* refreshToken: UPDATE users SET gsc_connected = 0 WHERE id = ?, then
\* 'Failed to refresh token', status 401.
RefreshDisconnect(p) ==
    /\ pc[p] = "rt_disconnect"
    /\ gsc_connected' = [gsc_connected EXCEPT ![req[p].userId] = FALSE]
    /\ Respond(p, [NoResp EXCEPT !.status = 401, !.body = "refresh_failed"])
    /\ UNCHANGED <<dbVars, req, user, local, budget, startCredits, track, before,
                   results, rlVars, gsc_refresh_token, auth_store, issued, gw, prev, cacheVars, utilVars>>

\* refreshToken: the token endpoint issues an access token.
RefreshOAuthOk(p) ==
    /\ pc[p] = "rt_oauth"
    /\ issued < MaxIssued
    /\ issued' = issued + 1
    /\ gw' = [gw EXCEPT ![p].oauth = @ + 1, ![p].newToken = issued + 1]
    /\ pc' = [pc EXCEPT ![p] = "rt_put"]
    /\ UNCHANGED <<dbVars, req, user, local, resp, budget, startCredits, track,
                   before, results, rlVars,
                   gsc_refresh_token, gsc_connected, auth_store, prev, cacheVars, utilVars>>

\* refreshToken: env.AUTH_STORE.put(`gsc_token:${userId}`, access_token,
\* { expirationTtl: expires_in }), then the success response, which a
\* handler that called refreshToken takes as leave to read the cache again.
RefreshPut(p) ==
    /\ pc[p] = "rt_put"
    /\ auth_store' = [auth_store EXCEPT ![req[p].userId] = gw[p].newToken]
    /\ IF req[p].handler = "refreshToken"
       THEN Respond(p, [NoResp EXCEPT !.status = 200, !.body = "refreshed"])
       ELSE /\ pc' = [pc EXCEPT ![p] = "tk_reget"]
            /\ UNCHANGED resp
    /\ UNCHANGED <<dbVars, req, user, local, budget, startCredits, track,
                   before, results, rlVars,
                   gsc_refresh_token, gsc_connected, issued, gw, prev, cacheVars, utilVars>>

\* const newAccessToken = await env.AUTH_STORE.get(`gsc_token:${userId}`)
\* if (!newAccessToken): 'Failed to refresh access token', status 401
TokenReget(p) ==
    /\ pc[p] = "tk_reget"
    /\ LET t == auth_store[req[p].userId]
       IN  IF t = 0
           THEN /\ Respond(p, [NoResp EXCEPT !.status = 401, !.body = "no_new_token"])
                /\ UNCHANGED gw
           ELSE /\ gw' = [gw EXCEPT ![p].accessToken = t]
                /\ pc' = [pc EXCEPT ![p] = "up_fetch"]
                /\ UNCHANGED resp
    /\ UNCHANGED <<dbVars, req, user, local, budget, startCredits, track, before,
                   results, rlVars,
                   gsc_refresh_token, gsc_connected, auth_store, issued, prev, cacheVars, utilVars>>

\* The request to the Search Console API is sent and answered with status s.
Upstream(p, s) ==
    gw' = [gw EXCEPT ![p].upstream = @ + 1,
                     ![p].firstStatus = IF @ = 0 THEN s ELSE @,
                     ![p].lastStatus = s]

RetriedOrForbidden(h, s) == h = "getProperties" /\ s \in {401, 403}
\* getProperties: if (response.status === 401); the other handlers have no
\* such branch.
Retried(h, s) == h = "getProperties" /\ s = 401

\* The answer is ok: its payload is returned.  The payload of the k-th
\* request a handler sends is written k.
UpstreamOk(p) ==
    /\ pc[p] = "up_fetch"
    /\ gw[p].upstream < MaxUpstream
    /\ Upstream(p, 200)
    /\ Respond(p, [NoResp EXCEPT !.status = 200, !.body = "ok",
                                 !.payload = gw[p].upstream + 1,
                                 !.limit = local[p].pageLimit,
                                 !.credits = IF req[p].handler = "getTopPages"
                                             THEN user[p] -
                                                  (IF local[p].pageLimit > DefaultPageLimit
                                                   THEN 1 ELSE 0)
                                             ELSE 0])
    /\ UNCHANGED <<dbVars, req, user, local, budget, startCredits, track, before,
                   results, rlVars,
                   gsc_refresh_token, gsc_connected, auth_store, issued, prev, cacheVars, utilVars>>

\* getProperties: if (response.status === 401) the cached token is deleted
\* and getProperties(request, env) is called again.
UpstreamUnauthorized(p) ==
    /\ pc[p] = "up_fetch"
    /\ gw[p].upstream + 1 < MaxUpstream
    /\ \E s \in UpstreamStatuses \ {200} :
          /\ Retried(req[p].handler, s)
          /\ Upstream(p, s)
    /\ pc' = [pc EXCEPT ![p] = "gp_evict"]
    /\ UNCHANGED <<dbVars, req, user, local, resp, budget, startCredits, track,
                   before, results, rlVars,
                   gsc_refresh_token, gsc_connected, auth_store, issued, prev, cacheVars, utilVars>>

\* getProperties, fetchGSCData and getTopPages answer with the upstream's
\* status.  getInsights has throw new APIError(..., response.status, ...), and
\* insights.js does not bind the name APIError (errors.js does not export
\* it): evaluating it throws a ReferenceError, which withErrorHandling
\* answers with 500.
ErrorStatus(h, s) == IF h = "getInsights" THEN 500 ELSE s

\* Any other answer that is not ok ends the request with an error response.
UpstreamError(p) ==
    /\ pc[p] = "up_fetch"
    /\ gw[p].upstream < MaxUpstream
    /\ \E s \in UpstreamStatuses \ {200} :
          /\ ~Retried(req[p].handler, s)
          /\ Upstream(p, s)
          /\ Respond(p, [NoResp EXCEPT
                            !.status = ErrorStatus(req[p].handler, s),
                            !.body = IF req[p].handler = "getInsights"
                                     THEN "internal" ELSE "upstream"])
    /\ UNCHANGED <<dbVars, req, user, local, budget, startCredits, track, before,
                   results, rlVars,
                   gsc_refresh_token, gsc_connected, auth_store, issued, prev, cacheVars, utilVars>>

\* getProperties is called again and the cached token is left in place.
GetPropertiesRetryOnly(p) ==
    /\ pc[p] = "gp_evict"
    /\ pc' = [pc EXCEPT ![p] = "gp_select"]
    /\ UNCHANGED <<dbVars, req, user, local, resp, budget, startCredits, track,
                   before, results, rlVars, gwVars, prev, cacheVars, utilVars>>

\* await env.AUTH_STORE.delete(`gsc_token:${userId}`);
\* return getProperties(request, env)
GetPropertiesEvict(p) ==
    /\ pc[p] = "gp_evict"
    /\ auth_store' = [auth_store EXCEPT ![req[p].userId] = 0]
    /\ gw' = [gw EXCEPT ![p].evicted = @ + 1, ![p].oauthAtEvict = gw[p].oauth]
    /\ pc' = [pc EXCEPT ![p] = "gp_select"]
    /\ UNCHANGED <<dbVars, req, user, local, resp, budget, startCredits, track,
                   before, results, rlVars,
                   gsc_refresh_token, gsc_connected, issued, prev, cacheVars, utilVars>>

\* The expirationTtl of a cached access token runs out.
TokenExpires ==
    /\ \E u \in Users :
          /\ auth_store[u] # 0
          /\ auth_store' = [auth_store EXCEPT ![u] = 0]
    /\ UNCHANGED <<creditVars, track, rlVars,
                   gsc_refresh_token, gsc_connected, issued, gw, prev, cacheVars, utilVars>>

\* handleCallback: the authorization code is exchanged; a refused exchange
\* and an answer without refresh_token end with status 400.
CallbackStart(p) ==
    /\ CanStart(p)
    /\ \E u \in Users, o \in {"refused", "norefresh", "ok"} :
          /\ req' = [req EXCEPT ![p] =
                       [NoReq EXCEPT !.handler = "handleCallback", !.userId = u]]
          /\ o = "ok" => issued < MaxIssued
          /\ issued' = IF o = "ok" THEN issued + 1 ELSE issued
          /\ gw' = [gw EXCEPT ![p] =
                      [NoGw EXCEPT !.newToken = IF o = "ok" THEN issued + 1 ELSE 0]]
          /\ pc' = [pc EXCEPT ![p] = IF o = "ok" THEN "cb_update" ELSE "done"]
          /\ resp' = [resp EXCEPT ![p] =
                        IF o = "ok" THEN NoResp
                        ELSE [NoResp EXCEPT !.status = 400, !.body = o]]
    /\ user' = [user EXCEPT ![p] = 0]
    /\ local' = [local EXCEPT ![p] = NoLocal]
    /\ budget' = budget - 1
    /\ UNCHANGED <<dbVars, startCredits, track, before, results, rlVars,
                   gsc_refresh_token, gsc_connected, auth_store, prev, cacheVars, utilVars>>

\* The flag is set and the refresh token is not stored.
CallbackFlagOnly(p) ==
    /\ pc[p] = "cb_update"
    /\ gsc_connected' = [gsc_connected EXCEPT ![req[p].userId] = TRUE]
    /\ pc' = [pc EXCEPT ![p] = "cb_put"]
    /\ UNCHANGED <<dbVars, req, user, local, resp, budget, startCredits, track,
                   before, results, rlVars, gsc_refresh_token, auth_store, issued,
                   gw, prev, cacheVars, utilVars>>

\* UPDATE users SET gsc_refresh_token = ?, gsc_connected = 1 WHERE id = ?
CallbackUpdate(p) ==
    /\ pc[p] = "cb_update"
    /\ gsc_refresh_token' = [gsc_refresh_token EXCEPT ![req[p].userId] = 1]
    /\ gsc_connected' = [gsc_connected EXCEPT ![req[p].userId] = TRUE]
    /\ pc' = [pc EXCEPT ![p] = "cb_put"]
    /\ UNCHANGED <<dbVars, req, user, local, resp, budget, startCredits, track,
                   before, results, rlVars, auth_store, issued, gw, prev, cacheVars, utilVars>>

\* env.AUTH_STORE.put(`gsc_token:${userId}`, access_token, ...), status 200
CallbackPut(p) ==
    /\ pc[p] = "cb_put"
    /\ auth_store' = [auth_store EXCEPT ![req[p].userId] = gw[p].newToken]
    /\ Respond(p, [NoResp EXCEPT !.status = 200, !.body = "connected"])
    /\ UNCHANGED <<dbVars, req, user, local, budget, startCredits, track, before,
                   results, rlVars, gsc_refresh_token, gsc_connected, issued, gw, prev, cacheVars, utilVars>>

(***************************************************************************)
(* The response cache: getCachedData and setCachedData                     *)
(***************************************************************************)
CacheKeys == {"gsc:1:top-pages:"}
Payloads == {"d1", "d2"}
\* Time-to-live values in seconds: one tick of the clock, two ticks, and the
\* default.
CacheTtls == {TickMs \div MsPerSecond, 2 * (TickMs \div MsPerSecond), DEFAULT_TTL}

\* A stored value { data, expiresAt } and the time from which the store may
\* drop it (its expirationTtl counted from the put).
NoCached == [present |-> FALSE, data |-> "", expiresAt |-> 0, dropAt |-> 0]

\* op: "get" or "set"; data, ttl: the arguments of a set; at: the time a set
\* was called; stamp: the expiresAt it computed; found, read: what kv.get returned; now: the time
\* kv.get returned, which is Date.now() of the expiry check; result, payload: what a get returned; failed: whether
\* a store operation of the call threw.
NoCacheCall == [pc |-> "idle", op |-> "none", key |-> "", data |-> "", ttl |-> 0,
                at |-> 0, stamp |-> 0, found |-> FALSE, read |-> NoCached, now |-> 0,
                result |-> "none", payload |-> "", failed |-> FALSE]

\* History of the last setCachedData call on a key: whether it has returned
\* with its write done, its data and ttl, and the time it was called.
NoSet == [valid |-> FALSE, data |-> "", ttl |-> 0, at |-> 0]

ExpiresAtSeconds(now, ttl) == now + ttl
\* expiresAt: Date.now() + (ttl * 1000)
ExpiresAt(now, ttl) == now + (ttl * MsPerSecond)

TrustStoreExpiry(now, expiresAt) == FALSE
\* if (cached.expiresAt && Date.now() > cached.expiresAt)
Expired(now, expiresAt) == expiresAt # 0 /\ now > expiresAt

CacheFrame == UNCHANGED <<creditVars, track, rlVars, gwVars, prev, utilVars>>

\* getCachedData(kv, key)
CacheGetStart(p) ==
    /\ cc[p].pc \in {"idle", "done"}
    /\ \E k \in CacheKeys :
          cc' = [cc EXCEPT ![p] = [NoCacheCall EXCEPT !.pc = "c_get", !.op = "get",
                                                      !.key = k]]
    /\ UNCHANGED <<cache, lastSet>>
    /\ CacheFrame

\* const cached = await kv.get(key, 'json'); if (!cached) return null;
\* the expiry check; return cached.data
CacheGetRead(p) ==
    /\ cc[p].pc = "c_get"
    /\ LET e == cache[cc[p].key]
       IN  cc' = [cc EXCEPT ![p] =
                    IF ~e.present
                    THEN [@ EXCEPT !.pc = "done", !.now = clock, !.result = "miss"]
                    ELSE IF Expired(clock, e.expiresAt)
                    THEN [@ EXCEPT !.pc = "c_delete", !.found = TRUE, !.read = e,
                                   !.now = clock]
                    ELSE [@ EXCEPT !.pc = "done", !.found = TRUE, !.read = e,
                                   !.now = clock, !.result = "hit",
                                   !.payload = e.data]]
    /\ UNCHANGED <<cache, lastSet>>
    /\ CacheFrame

\* await kv.delete(key); return null
CacheGetDelete(p) ==
    /\ cc[p].pc = "c_delete"
    /\ cache' = [cache EXCEPT ![cc[p].key] = NoCached]
    /\ cc' = [cc EXCEPT ![p].pc = "done", ![p].result = "miss"]
    /\ UNCHANGED lastSet
    /\ CacheFrame

\* setCachedData(kv, key, data, ttl): cacheData = { data, expiresAt }
CacheSetStart(p) ==
    /\ cc[p].pc \in {"idle", "done"}
    /\ \E k \in CacheKeys, d \in Payloads, t \in CacheTtls :
          /\ cc' = [cc EXCEPT ![p] =
                      [NoCacheCall EXCEPT !.pc = "c_put", !.op = "set", !.key = k,
                                          !.data = d, !.ttl = t, !.at = clock,
                                          !.stamp = ExpiresAt(clock, t)]]
          /\ lastSet' = [lastSet EXCEPT ![k] = NoSet]
    /\ UNCHANGED cache
    /\ CacheFrame

\* await kv.put(key, JSON.stringify(cacheData), { expirationTtl: ttl })
CacheSetPut(p) ==
    /\ cc[p].pc = "c_put"
    /\ cache' = [cache EXCEPT ![cc[p].key] =
                   [present |-> TRUE, data |-> cc[p].data,
                    expiresAt |-> cc[p].stamp,
                    dropAt |-> clock + (cc[p].ttl * MsPerSecond)]]
    /\ cc' = [cc EXCEPT ![p].pc = "done"]
    /\ lastSet' = [lastSet EXCEPT ![cc[p].key] =
                     [valid |-> TRUE, data |-> cc[p].data, ttl |-> cc[p].ttl,
                      at |-> cc[p].at]]
    /\ CacheFrame

\* kv.get, kv.delete or kv.put throws and the error leaves the function.
CacheStorePropagates(p) ==
    /\ cc[p].pc \in {"c_get", "c_delete", "c_put"}
    /\ cc' = [cc EXCEPT ![p].pc = "done", ![p].failed = TRUE, ![p].result = "threw"]
    /\ UNCHANGED <<cache, lastSet>>
    /\ CacheFrame

\* kv.get, kv.delete or kv.put throws: the catch block logs the error; a get
\* returns null, a set returns.
CacheStoreFails(p) ==
    /\ cc[p].pc \in {"c_get", "c_delete", "c_put"}
    /\ cc' = [cc EXCEPT ![p].pc = "done", ![p].failed = TRUE,
                        ![p].result = IF cc[p].op = "get" THEN "miss" ELSE "none"]
    /\ UNCHANGED <<cache, lastSet>>
    /\ CacheFrame

\* The store drops an entry whose expirationTtl has run out, at that time or
\* later.
CacheStoreExpires ==
    /\ \E k \in CacheKeys :
          /\ cache[k].present
          /\ cache[k].dropAt <= clock
          /\ cache' = [cache EXCEPT ![k] = NoCached]
    /\ UNCHANGED <<cc, lastSet>>
    /\ CacheFrame

(***************************************************************************)
(* generateGSCacheKey (src/src/utils/cache.js)                             *)
(***************************************************************************)
\* Parameter names, listed in localeCompare order, and parameter values as
\* the template literal renders them.
ParamNames == <<"endDate", "siteUrl", "startDate">>
ParamValues == {"a", "b"}
Endpoints == {"data", "top-pages"}

ParamEntries == [name : {ParamNames[i] : i \in DOMAIN ParamNames}, value : ParamValues]

\* A params object: its entries in insertion order, no name twice.
ParamObjects ==
    {s \in UNION {[1..n -> ParamEntries] : n \in 0..MaxParams} :
        \A i, j \in DOMAIN s : i # j => s[i].name # s[j].name}

NameRank(name) == CHOOSE i \in DOMAIN ParamNames : ParamNames[i] = name

\* a.localeCompare(b): negative, zero or positive
localeCompare(a, b) == NameRank(a) - NameRank(b)

InsertionOrder(entries) == entries
\* Object.entries(params).sort(([a], [b]) => a.localeCompare(b)); the sort
\* is stable.
RECURSIVE SortByName(_)
SortByName(entries) ==
    IF entries = <<>> THEN <<>>
    ELSE LET e == entries[Len(entries)]
             rest == SortByName(SubSeq(entries, 1, Len(entries) - 1))
         IN  SelectSeq(rest, LAMBDA x : localeCompare(x.name, e.name) <= 0)
               \o <<e>>
               \o SelectSeq(rest, LAMBDA x : localeCompare(x.name, e.name) > 0)

\* parts.join(sep)
RECURSIVE Join(_, _)
Join(parts, sep) ==
    IF parts = <<>> THEN ""
    ELSE IF Len(parts) = 1 THEN parts[1]
    ELSE parts[1] \o sep \o Join(Tail(parts), sep)

generateGSCacheKey(userId, endpoint, params) ==
    LET sorted == SortByName(params)
        paramString == Join([i \in DOMAIN sorted |->
                                sorted[i].name \o ":" \o sorted[i].value], "|")
    IN  "gsc:" \o ToString(userId) \o ":" \o endpoint \o ":" \o paramString

NoKeyCall == [pc |-> "idle", userId |-> 0, endpoint |-> "",
              first |-> <<>>, second |-> <<>>, firstKey |-> "", secondKey |-> ""]

UtilFrame == UNCHANGED <<creditVars, track, rlVars, gwVars, prev, cacheVars>>

GenerateFirstKey ==
    /\ keyCall.pc = "first"
    /\ keyCall' = [keyCall EXCEPT
                     !.pc = "second",
                     !.firstKey = generateGSCacheKey(keyCall.userId, keyCall.endpoint,
                                                     keyCall.first)]
    /\ UNCHANGED <<fieldCheck, wrapped>>
    /\ UtilFrame

GenerateSecondKey ==
    /\ keyCall.pc = "second"
    /\ keyCall' = [keyCall EXCEPT
                     !.pc = "done",
                     !.secondKey = generateGSCacheKey(keyCall.userId, keyCall.endpoint,
                                                      keyCall.second)]
    /\ UNCHANGED <<fieldCheck, wrapped>>
    /\ UtilFrame

(***************************************************************************)
(* validateRequiredFields (src/src/utils/errors.js)                        *)
(***************************************************************************)
\* The fields of the request body generateInsights validates.
Fields == {"siteUrl", "startDate", "endDate"}

\* JSON values a field can hold, and undefined, which reading an absent
\* property gives.
Undefined == [type |-> "undefined", text |-> ""]
JsonValues == {[type |-> "string", text |-> ""],
               [type |-> "string", text |-> "x"],
               [type |-> "number", text |-> "0"],
               [type |-> "boolean", text |-> "false"],
               [type |-> "null", text |-> "null"]}

\* A body: the properties it has and their values.
Bodies == [Fields -> JsonValues \cup {Undefined}]

HasField(body, field) == body[field] # Undefined

\* ToBoolean: undefined, null, false, 0 and "" are falsy.
ToBoolean(value) ==
    ~ \/ value.type \in {"undefined", "null"}
      \/ value.type = "boolean" /\ value.text = "false"
      \/ value.type = "number" /\ value.text = "0"
      \/ value.type = "string" /\ value.text = ""

\* requiredFields arrays: fields in any order, none twice.
RequiredLists ==
    {s \in UNION {[1..n -> Fields] : n \in 0..MaxRequired} :
        \A i, j \in DOMAIN s : i # j => s[i] # s[j]}

\* requiredFields.filter(field => !body[field])
missingFields(body, requiredFields) ==
    SelectSeq(requiredFields, LAMBDA field : ~ToBoolean(body[field]))

NoFieldCheck == [pc |-> "idle", body |-> [f \in Fields |-> Undefined],
                 requiredFields |-> <<>>, thrown |-> "none", missingFields |-> <<>>]

validateRequiredFields ==
    /\ fieldCheck.pc = "call"
    /\ LET missing == missingFields(fieldCheck.body, fieldCheck.requiredFields)
       IN  fieldCheck' = [fieldCheck EXCEPT
                            !.pc = "done",
                            !.thrown = IF Len(missing) > 0 THEN "ValidationError"
                                       ELSE "none",
                            !.missingFields = IF Len(missing) > 0 THEN missing
                                              ELSE <<>>]
    /\ UNCHANGED <<keyCall, wrapped>>
    /\ UtilFrame

(***************************************************************************)
(* withErrorHandling and createErrorResponse (src/src/utils/errors.js)     *)
(***************************************************************************)
\* A thrown value: its class name, whether it is an instance of APIError,
\* its status and code properties (0 and "" for undefined), and the
\* remaining and reset of a RateLimitError.
NoError == [name |-> "", isAPIError |-> FALSE, status |-> 0, code |-> "",
            remaining |-> 0, reset |-> 0]

\* new APIError(message, status, code, details)
APIError(status, code) ==
    [NoError EXCEPT !.name = "APIError", !.isAPIError = TRUE,
                    !.status = status, !.code = code]
\* super(message, 401, 'AUTH_ERROR', details)
AuthError == [APIError(401, "AUTH_ERROR") EXCEPT !.name = "AuthError"]
\* super(message, 429, 'RATE_LIMIT_ERROR', details); this.remaining, this.reset
RateLimitError(remaining, reset) ==
    [APIError(429, "RATE_LIMIT_ERROR") EXCEPT !.name = "RateLimitError",
                                              !.remaining = remaining,
                                              !.reset = reset]
\* super(message, 400, 'VALIDATION_ERROR', details)
ValidationError == [APIError(400, "VALIDATION_ERROR") EXCEPT !.name = "ValidationError"]
\* super(message, 404, 'NOT_FOUND', details)
NotFoundError == [APIError(404, "NOT_FOUND") EXCEPT !.name = "NotFoundError"]

\* Errors that are not APIErrors: those the runtime throws, and an error
\* object that carries a status and a code of its own.
OtherErrors ==
    {[NoError EXCEPT !.name = n] :
        n \in {"Error", "TypeError", "ReferenceError", "SyntaxError"}}
    \cup {[NoError EXCEPT !.name = "Error", !.status = 404, !.code = "ENOENT"]}

\* The values a wrapped handler throws; a RateLimitError is built from a
\* result of checkRateLimit.
Thrown ==
    {AuthError, ValidationError, NotFoundError}
    \cup {RateLimitError(r, t * TickMs) :
            r \in 0 .. InsightsRateLimit, t \in 0 .. MaxTicks + 2}
    \cup OtherErrors

\* The statuses of the responses a handler returns itself.
ReturnedStatuses == {200, 400, 402}

NoResponse == [status |-> 0, code |-> "", remaining |-> 0, reset |-> 0]

\* createErrorResponse(error): status error.status || 500, code error.code
\* || 'INTERNAL_ERROR'; the rate limit headers of a RateLimitError.
createErrorResponse(error) ==
    [status |-> IF error.status # 0 THEN error.status ELSE 500,
     code |-> IF error.code # "" THEN error.code ELSE "INTERNAL_ERROR",
     remaining |-> IF error.name = "RateLimitError" THEN error.remaining ELSE 0,
     reset |-> IF error.name = "RateLimitError" THEN error.reset ELSE 0]

AsIs(error) == error
\* new APIError('An unexpected error occurred', 500, 'INTERNAL_ERROR',
\* error.message)
Unexpected(error) == APIError(500, "INTERNAL_ERROR")

\* The catch block of withErrorHandling.
Caught(error) ==
    IF error.isAPIError
    THEN createErrorResponse(error)
    ELSE createErrorResponse(Unexpected(error))

\* outcome: "returns" or "throws"; returned: the handler's own response;
\* thrown: what it threw; response: what the wrapper returned.
NoWrapped == [pc |-> "idle", outcome |-> "none", returned |-> NoResponse,
              thrown |-> NoError, response |-> NoResponse]

\* return await handler(request, env), or the catch block
withErrorHandling ==
    /\ wrapped.pc = "call"
    /\ wrapped' = [wrapped EXCEPT
                     !.pc = "done",
                     !.response = IF wrapped.outcome = "returns"
                                  THEN wrapped.returned
                                  ELSE Caught(wrapped.thrown)]
    /\ UNCHANGED <<keyCall, fieldCheck>>
    /\ UtilFrame

(***************************************************************************)
(* Specifications                                                          *)
(***************************************************************************)
InitSlots ==
    /\ pc = [p \in Procs |-> "idle"]
    /\ req = [p \in Procs |-> NoReq]
    /\ user = [p \in Procs |-> 0]
    /\ local = [p \in Procs |-> NoLocal]
    /\ resp = [p \in Procs |-> NoResp]
    /\ before = [p \in Procs |-> [credits |-> credits, credit_logs |-> EmptyBag,
                                  insights |-> <<>>]]
    /\ gw = [p \in Procs |-> NoGw]
    /\ prev = NoPrev
    /\ cache = [k \in CacheKeys |-> NoCached]
    /\ cc = [p \in Procs |-> NoCacheCall]
    /\ lastSet = [k \in CacheKeys |-> NoSet]

InitUtil ==
    /\ keyCall = NoKeyCall
    /\ fieldCheck = NoFieldCheck
    /\ wrapped = NoWrapped

\* No user has been through the OAuth callback.
InitDisconnected ==
    /\ gsc_refresh_token = [u \in Users |-> 0]
    /\ gsc_connected = [u \in Users |-> FALSE]
    /\ auth_store = [u \in Users |-> 0]
    /\ issued = 0

InitLimiter ==
    /\ clock = 0
    /\ kv = [wk \in WindowKeys |-> NoEntry]
    /\ rlpc = [p \in Procs |-> "idle"]
    /\ rlreq = [p \in Procs |-> NoCall]
    /\ rlnow = [p \in Procs |-> 0]
    /\ rlcur = [p \in Procs |-> NoCurrent]
    /\ rlresp = [p \in Procs |-> NoResult]
    /\ rlfailed = [p \in Procs |-> FALSE]
    /\ rlhist = [wk \in WindowKeys |-> NoHist]

\* After registration: every user holds the default grant and no log row.
Init ==
    /\ credits = [u \in Users |-> InitialCredits]
    /\ credit_logs = EmptyBag
    /\ insights = <<>>
    /\ InitSlots
    /\ InitUtil
    /\ InitLimiter
    /\ InitDisconnected
    /\ calls = 0
    /\ budget = MaxRequests
    /\ startCredits = credits
    /\ track = FALSE
    /\ results = NoResults

Next ==
    \E p \in Procs :
        \/ UseCreditsStart(p)
        \/ UseCreditsSelect(p)
        \/ UseCreditsReject(p)
        \/ UseCreditsUpdate(p)
        \/ UseCreditsInsert(p)
        \/ TopPagesStart(p)
        \/ TopPagesSelect(p)
        \/ TopPagesUpdate(p)
        \/ TopPagesFetch(p)
        \/ InsightsEarlyReturn(p)
        \/ InsightsStart(p)
        \/ InsightsSelectExisting(p)
        \/ InsightsSelectContent(p)
        \/ InsightsSelectCredits(p)
        \/ InsightsReject(p)
        \/ InsightsBadKey(p)
        \/ InsightsAiFail(p)
        \/ InsightsAiOk(p)
        \/ InsightsBatch(p)
        \/ InsightsBatchFail(p)

Spec == Init /\ [][Next]_vars

\* useCredits requests one after the other, from any balance B the users may
\* hold (getTopPages and generateInsights lower a balance and add no row).
InitSeq ==
    /\ \E b \in 0 .. InitialCredits : credits = [u \in Users |-> b]
    /\ credit_logs = EmptyBag
    /\ insights = <<>>
    /\ InitSlots
    /\ InitUtil
    /\ InitLimiter
    /\ InitDisconnected
    /\ calls = 0
    /\ budget = MaxSeqRequests
    /\ startCredits = credits
    /\ track = TRUE
    /\ results = NoResults

NextSeq ==
    \/ UseCreditsStart(1)
    \/ UseCreditsSelect(1)
    \/ UseCreditsReject(1)
    \/ UseCreditsUpdate(1)
    \/ UseCreditsInsert(1)

SpecSeq == InitSeq /\ [][NextSeq]_vars

\* As many useCredits requests as there are slots, in any interleaving.
InitRace ==
    /\ credits \in [Users -> 0 .. InitialCredits]
    /\ credit_logs = EmptyBag
    /\ insights = <<>>
    /\ InitSlots
    /\ InitUtil
    /\ InitLimiter
    /\ InitDisconnected
    /\ calls = 0
    /\ budget = NumProcs
    /\ startCredits = credits
    /\ track = FALSE
    /\ results = NoResults

NextRace ==
    \E p \in Procs :
        \/ UseCreditsStart(p)
        \/ UseCreditsSelect(p)
        \/ UseCreditsReject(p)
        \/ UseCreditsUpdate(p)
        \/ UseCreditsInsert(p)

SpecRace == InitRace /\ [][NextRace]_vars

\* checkRateLimit calls in any interleaving, the clock advancing.
InitRL ==
    /\ credits = [u \in Users |-> InitialCredits]
    /\ credit_logs = EmptyBag
    /\ insights = <<>>
    /\ InitSlots
    /\ InitUtil
    /\ budget = 0
    /\ startCredits = credits
    /\ results = NoResults
    /\ InitLimiter
    /\ InitDisconnected
    /\ calls = MaxCalls
    /\ track = FALSE

NextRL ==
    \/ \E p \in Procs :
          \/ RLStart(p)
          \/ RLGet(p)
          \/ RLPutReset(p)
          \/ RLPutIncr(p)
          \/ RLStoreFails(p)
    \/ Tick

SpecRL == InitRL /\ [][NextRL]_vars

\* checkRateLimit calls one after the other, the clock advancing.
InitRLSeq ==
    /\ credits = [u \in Users |-> InitialCredits]
    /\ credit_logs = EmptyBag
    /\ insights = <<>>
    /\ InitSlots
    /\ InitUtil
    /\ budget = 0
    /\ startCredits = credits
    /\ results = NoResults
    /\ InitLimiter
    /\ InitDisconnected
    /\ calls = MaxCalls
    /\ track = TRUE

NextRLSeq ==
    \/ RLStart(1)
    \/ RLGet(1)
    \/ RLPutReset(1)
    \/ RLPutIncr(1)
    \/ RLStoreFails(1)
    \/ Tick

SpecRLSeq == InitRLSeq /\ [][NextRLSeq]_vars

\* generateInsights requests one after the other, from any balances.
InitGen ==
    /\ credits \in [Users -> 0 .. 2]
    /\ credit_logs = EmptyBag
    /\ insights = <<>>
    /\ InitSlots
    /\ InitUtil
    /\ InitLimiter
    /\ InitDisconnected
    /\ calls = 0
    /\ budget = MaxInsightRequests
    /\ startCredits = credits
    /\ track = TRUE
    /\ results = NoResults

NextGen ==
    \/ InsightsEarlyReturn(1)
    \/ InsightsParseFail(1)
    \/ InsightsStart(1)
    \/ InsightsReadFail(1)
    \/ InsightsSelectExisting(1)
    \/ InsightsSelectContent(1)
    \/ InsightsSelectCredits(1)
    \/ InsightsReject(1)
    \/ InsightsBadKey(1)
    \/ InsightsAiFail(1)
    \/ InsightsAiOk(1)
    \/ InsightsBatch(1)
    \/ InsightsBatchFail(1)

SpecGen == InitGen /\ [][NextGen]_vars

\* generateInsights requests, as many as there are slots, in any
\* interleaving.
InitInsightsRace ==
    /\ credits \in [Users -> 0 .. 2]
    /\ credit_logs = EmptyBag
    /\ insights = <<>>
    /\ InitSlots
    /\ InitUtil
    /\ InitLimiter
    /\ InitDisconnected
    /\ calls = 0
    /\ budget = NumProcs
    /\ startCredits = credits
    /\ track = FALSE
    /\ results = NoResults

NextInsightsRace ==
    \E p \in Procs :
        \/ InsightsEarlyReturn(p)
        \/ InsightsParseFail(p)
        \/ InsightsStart(p)
        \/ InsightsReadFail(p)
        \/ InsightsSelectExisting(p)
        \/ InsightsSelectContent(p)
        \/ InsightsSelectCredits(p)
        \/ InsightsReject(p)
        \/ InsightsBadKey(p)
        \/ InsightsAiFail(p)
        \/ InsightsAiOk(p)
        \/ InsightsBatch(p)
        \/ InsightsBatchFail(p)

SpecInsightsRace == InitInsightsRace /\ [][NextInsightsRace]_vars

\* getTopPages requests, as many as there are slots, in any interleaving,
\* the users holding no credit, one credit or two.
InitTopPages ==
    /\ credits \in [Users -> 0 .. 2]
    /\ credit_logs = EmptyBag
    /\ insights = <<>>
    /\ InitSlots
    /\ InitUtil
    /\ InitLimiter
    /\ InitDisconnected
    /\ calls = 0
    /\ budget = NumProcs
    /\ startCredits = credits
    /\ track = FALSE
    /\ results = NoResults

NextTopPages ==
    \E p \in Procs :
        \/ TopPagesStart(p)
        \/ TopPagesSelect(p)
        \/ TopPagesUpdate(p)
        \/ TopPagesFetch(p)

SpecTopPages == InitTopPages /\ [][NextTopPages]_vars

\* The users that went through the OAuth callback hold a refresh token and
\* the connection flag; the cache holds the access token of some of them.
InitConnected ==
    \E connected \in SUBSET Users : \E cached \in SUBSET connected :
        /\ gsc_refresh_token = [u \in Users |-> IF u \in connected THEN 1 ELSE 0]
        /\ gsc_connected = [u \in Users |-> u \in connected]
        /\ auth_store = [u \in Users |-> IF u \in cached THEN 1 ELSE 0]
        /\ issued = IF cached = {} THEN 0 ELSE 1

InitGW ==
    /\ credits = [u \in Users |-> 1]
    /\ credit_logs = EmptyBag
    /\ insights = <<>>
    /\ InitSlots
    /\ InitUtil
    /\ InitLimiter
    /\ InitConnected
    /\ calls = 0
    /\ budget = MaxGatewayRequests
    /\ startCredits = credits
    /\ track = FALSE
    /\ results = NoResults

GatewayStep(p) ==
    \/ GetPropertiesStart(p)
    \/ GetPropertiesSelect(p)
    \/ FetchGSCDataStart(p)
    \/ TopPagesStart(p)
    \/ TopPagesSelect(p)
    \/ TopPagesUpdate(p)
    \/ TopPagesToken(p)
    \/ GetInsightsStart(p)
    \/ GetInsightsRateLimit(p)
    \/ RefreshStart(p)
    \/ TokenGet(p)
    \/ RefreshSelect(p)
    \/ RefreshOAuthFail(p)
    \/ RefreshDisconnect(p)
    \/ RefreshOAuthOk(p)
    \/ RefreshPut(p)
    \/ TokenReget(p)
    \/ UpstreamOk(p)
    \/ UpstreamUnauthorized(p)
    \/ UpstreamError(p)
    \/ GetPropertiesEvict(p)
    \/ CallbackStart(p)
    \/ CallbackUpdate(p)
    \/ CallbackPut(p)

\* The handlers that query the Search Console API, and the OAuth callback,
\* in any interleaving, cached tokens expiring.
NextGW ==
    \/ \E p \in Procs : GatewayStep(p)
    \/ TokenExpires

SpecGW == InitGW /\ [][NextGW]_vars

\* The same requests one after the other.
InitGWSeq ==
    /\ credits = [u \in Users |-> 1]
    /\ credit_logs = EmptyBag
    /\ insights = <<>>
    /\ InitSlots
    /\ InitUtil
    /\ InitLimiter
    /\ InitConnected
    /\ calls = 0
    /\ budget = MaxGatewaySeqRequests
    /\ startCredits = credits
    /\ track = TRUE
    /\ results = NoResults

NextGWSeq ==
    \/ GatewayStep(1)
    \/ TokenExpires

SpecGWSeq == InitGWSeq /\ [][NextGWSeq]_vars

\* scheduled: SELECT id, gsc_refresh_token FROM users WHERE gsc_connected = 1,
\* then refreshUserGSCData for a row of the result: the refresh token is
\* exchanged and the access token is put in AUTH_STORE.  A refused exchange
\* throws, is logged, and changes nothing; the database is not written.
refreshUserGSCData(u) ==
    /\ gsc_connected[u]
    /\ gsc_refresh_token[u] # 0
    /\ issued < MaxIssued
    /\ issued' = issued + 1
    /\ auth_store' = [auth_store EXCEPT ![u] = issued + 1]
    /\ UNCHANGED <<creditVars, track, rlVars, gsc_refresh_token, gsc_connected,
                   gw, prev, cacheVars, utilVars>>

scheduled == \E u \in Users : refreshUserGSCData(u)

\* The OAuth callback and POST /auth/refresh, as many requests as there are
\* slots, and the scheduled refresh, in any interleaving.
InitConnection ==
    /\ credits = [u \in Users |-> 1]
    /\ credit_logs = EmptyBag
    /\ insights = <<>>
    /\ InitSlots
    /\ InitUtil
    /\ InitLimiter
    /\ InitConnected
    /\ calls = 0
    /\ budget = NumProcs
    /\ startCredits = credits
    /\ track = FALSE
    /\ results = NoResults

ConnectionStep(p) ==
    \/ CallbackStart(p)
    \/ CallbackUpdate(p)
    \/ CallbackPut(p)
    \/ RefreshStart(p)
    \/ RefreshSelect(p)
    \/ RefreshOAuthFail(p)
    \/ RefreshDisconnect(p)
    \/ RefreshOAuthOk(p)
    \/ RefreshPut(p)

NextConnection ==
    \/ \E p \in Procs : ConnectionStep(p)
    \/ scheduled

SpecConnection == InitConnection /\ [][NextConnection]_vars

\* Requests of connected users that find the cache empty, as many as there
\* are slots, in any interleaving; no cached token expires meanwhile.
InitRefreshRace ==
    /\ credits = [u \in Users |-> 1]
    /\ credit_logs = EmptyBag
    /\ insights = <<>>
    /\ InitSlots
    /\ InitUtil
    /\ InitLimiter
    /\ gsc_refresh_token = [u \in Users |-> 1]
    /\ gsc_connected = [u \in Users |-> TRUE]
    /\ auth_store = [u \in Users |-> 0]
    /\ issued = 0
    /\ calls = 0
    /\ budget = NumProcs
    /\ startCredits = credits
    /\ track = FALSE
    /\ results = NoResults

NextRefreshRace ==
    \E p \in Procs :
        \/ GetPropertiesStart(p)
        \/ GetPropertiesSelect(p)
        \/ FetchGSCDataStart(p)
        \/ TokenGet(p)
        \/ RefreshSelect(p)
        \/ RefreshOAuthFail(p)
        \/ RefreshDisconnect(p)
        \/ RefreshOAuthOk(p)
        \/ RefreshPut(p)
        \/ TokenReget(p)
        \/ UpstreamOk(p)
        \/ UpstreamUnauthorized(p)
        \/ UpstreamError(p)
        \/ GetPropertiesEvict(p)

SpecRefreshRace == InitRefreshRace /\ [][NextRefreshRace]_vars

\* getInsights requests of one slot with the limiter they call, the clock
\* advancing and cached tokens expiring.  The limiter's window of the first
\* minute is empty or holds the count of the requests made so far in that
\* minute, one below the limit or at the limit.  checkRateLimit's reset
\* branch is not taken with one window length (the reset stored under a
\* window key is later than every instant of that window).
InitInsightsQuery ==
    /\ credits = [u \in Users |-> 1]
    /\ credit_logs = EmptyBag
    /\ insights = <<>>
    /\ InitSlots
    /\ InitUtil
    /\ InitConnected
    /\ clock = 0
    /\ \E n \in {0, InsightsRateLimit - 1, InsightsRateLimit} :
          kv = [wk \in WindowKeys |->
                  IF n > 0 /\ wk[2] = 0
                  THEN [present |-> TRUE, count |-> n,
                        reset |-> WindowMs(DEFAULT_WINDOW),
                        expiresAt |-> WindowMs(DEFAULT_WINDOW)]
                  ELSE NoEntry]
    /\ rlpc = [p \in Procs |-> "idle"]
    /\ rlreq = [p \in Procs |-> NoCall]
    /\ rlnow = [p \in Procs |-> 0]
    /\ rlcur = [p \in Procs |-> NoCurrent]
    /\ rlresp = [p \in Procs |-> NoResult]
    /\ rlfailed = [p \in Procs |-> FALSE]
    /\ rlhist = [wk \in WindowKeys |-> NoHist]
    /\ calls = 0
    /\ budget = MaxGatewaySeqRequests
    /\ startCredits = credits
    /\ track = FALSE
    /\ results = NoResults

NextInsightsQuery ==
    \/ GetInsightsCall(1)
    \/ GetInsightsCheck(1)
    \/ RLGet(1)
    \/ RLPutIncr(1)
    \/ RLStoreFails(1)
    \/ GetInsightsLimited(1)
    \/ TokenGet(1)
    \/ UpstreamOk(1)
    \/ UpstreamError(1)
    \/ TokenExpires
    \/ Tick

SpecInsightsQuery == InitInsightsQuery /\ [][NextInsightsQuery]_vars

\* getCachedData and setCachedData calls in any interleaving, the clock
\* advancing.
InitCache ==
    /\ credits = [u \in Users |-> InitialCredits]
    /\ credit_logs = EmptyBag
    /\ insights = <<>>
    /\ InitSlots
    /\ InitUtil
    /\ InitLimiter
    /\ InitDisconnected
    /\ calls = 0
    /\ budget = 0
    /\ startCredits = credits
    /\ track = FALSE
    /\ results = NoResults

CacheStep(p) ==
    \/ CacheGetStart(p)
    \/ CacheGetRead(p)
    \/ CacheGetDelete(p)
    \/ CacheSetStart(p)
    \/ CacheSetPut(p)
    \/ CacheStoreFails(p)

NextCache ==
    \/ \E p \in Procs : CacheStep(p)
    \/ CacheStoreExpires
    \/ Tick

SpecCache == InitCache /\ [][NextCache]_vars

\* The same calls one after the other.
NextCacheSeq ==
    \/ CacheStep(1)
    \/ CacheStoreExpires
    \/ Tick

SpecCacheSeq == InitCache /\ [][NextCacheSeq]_vars

\* Two generateGSCacheKey calls for one user and endpoint, on any two params
\* objects.
InitKeys ==
    /\ credits = [u \in Users |-> InitialCredits]
    /\ credit_logs = EmptyBag
    /\ insights = <<>>
    /\ InitSlots
    /\ InitLimiter
    /\ InitDisconnected
    /\ calls = 0
    /\ budget = 0
    /\ startCredits = credits
    /\ track = FALSE
    /\ results = NoResults
    /\ \E u \in Users, e \in Endpoints, a \in ParamObjects, b \in ParamObjects :
          keyCall = [NoKeyCall EXCEPT !.pc = "first", !.userId = u, !.endpoint = e,
                                      !.first = a, !.second = b]
    /\ fieldCheck = NoFieldCheck
    /\ wrapped = NoWrapped

NextKeys ==
    \/ GenerateFirstKey
    \/ GenerateSecondKey

SpecKeys == InitKeys /\ [][NextKeys]_vars

\* A validateRequiredFields call on any body and list of required fields.
InitValidate ==
    /\ credits = [u \in Users |-> InitialCredits]
    /\ credit_logs = EmptyBag
    /\ insights = <<>>
    /\ InitSlots
    /\ InitLimiter
    /\ InitDisconnected
    /\ calls = 0
    /\ budget = 0
    /\ startCredits = credits
    /\ track = FALSE
    /\ results = NoResults
    /\ keyCall = NoKeyCall
    /\ wrapped = NoWrapped
    /\ \E b \in Bodies, r \in RequiredLists :
          fieldCheck = [NoFieldCheck EXCEPT !.pc = "call", !.body = b,
                                            !.requiredFields = r]

NextValidate == validateRequiredFields

SpecValidate == InitValidate /\ [][NextValidate]_vars

\* A call of a wrapped handler that returns a response or throws.
InitWrapped ==
    /\ credits = [u \in Users |-> InitialCredits]
    /\ credit_logs = EmptyBag
    /\ insights = <<>>
    /\ InitSlots
    /\ InitLimiter
    /\ InitDisconnected
    /\ calls = 0
    /\ budget = 0
    /\ startCredits = credits
    /\ track = FALSE
    /\ results = NoResults
    /\ keyCall = NoKeyCall
    /\ fieldCheck = NoFieldCheck
    /\ \/ \E s \in ReturnedStatuses :
            wrapped = [NoWrapped EXCEPT !.pc = "call", !.outcome = "returns",
                                        !.returned = [NoResponse EXCEPT !.status = s]]
       \/ \E e \in Thrown :
            wrapped = [NoWrapped EXCEPT !.pc = "call", !.outcome = "throws",
                                        !.thrown = e]

NextWrapped == withErrorHandling

SpecWrapped == InitWrapped /\ [][NextWrapped]_vars

(***************************************************************************)
(* Claims about the credit handlers                                        *)
(***************************************************************************)
Succeeded(p) == pc[p] = "done" /\ resp[p].status = 200

\* C1: for one user whose balance is exactly 1, two concurrent useCredits
\* requests with amount 1 never both succeed, in any interleaving of their
\* balance read, balance update and log insert.
C1_NoDoubleSpend ==
    \A p, q \in Procs :
        ( /\ p # q
          /\ req[p].handler = "useCredits" /\ req[q].handler = "useCredits"
          /\ req[p].userId = req[q].userId
          /\ startCredits[req[p].userId] = 1
          /\ req[p].amount = 1 /\ req[q].amount = 1 )
        => ~(Succeeded(p) /\ Succeeded(q))

\* C2: in every reachable state, after any interleaving of useCredits,
\* generateInsights and getTopPages requests, every user's balance is >= 0.
C2_NonNegative == \A u \in Users : credits[u] >= 0

AtRest == \A p \in Procs : pc[p] \in {"idle", "done"}

\* C3: starting from balance B, sequential useCredits requests with amount 1
\* succeed exactly B times, every later one is rejected with status 402, and
\* the balance is never negative: of the first n requests Min(n, B) succeeded,
\* the n-th is answered 200 if n <= B and 402 if not, and between requests the
\* balance is B less the successes.
C3_ExactlyBalanceCharges ==
    \A u \in Users :
        /\ credits[u] >= 0
        /\ ~results[u].others =>
              LET n == results[u].ok + results[u].rejected
                  B == startCredits[u]
              IN  /\ results[u].ok = Min(n, B)
                  /\ AtRest => credits[u] = B - results[u].ok
                  /\ \A p \in Procs :
                        (pc[p] = "done" /\ req[p].userId = u) =>
                            resp[p].status = IF n <= B THEN 200 ELSE 402

\* C3 witness: a user who began with the full grant was charged 5 times and
\* then rejected.
C3_Witness ==
    \E u \in Users :
        /\ startCredits[u] = InitialCredits
        /\ ~results[u].others
        /\ results[u].ok = InitialCredits
        /\ results[u].rejected >= 1
        /\ \E p \in Procs : pc[p] = "done" /\ req[p].userId = u /\ resp[p].status = 402

\* C4: a useCredits request whose amount exceeds the balance it finds fails
\* (status 402) and leaves users.credits and credit_logs as they were when
\* it began.
C4_RejectLeavesStateUnchanged ==
    \A p \in Procs :
        ( /\ track
          /\ req[p].handler = "useCredits"
          /\ req[p].amount > before[p].credits[req[p].userId] )
        => /\ credits = before[p].credits
           /\ credit_logs = before[p].credit_logs
           /\ pc[p] \in {"uc_select", "uc_check", "done"}
           /\ pc[p] = "done" => resp[p].status = 402 /\ resp[p].body = "insufficient"

\* C4 witness: a request for more than the balance was rejected while the
\* tables held earlier charges.
C4_Witness ==
    \E p \in Procs :
        /\ track
        /\ pc[p] = "done" /\ resp[p].status = 402
        /\ req[p].amount > before[p].credits[req[p].userId]
        /\ credit_logs # EmptyBag
        /\ credits = before[p].credits /\ credit_logs = before[p].credit_logs

\* C5: each user's balance equals the initial grant (5) minus the sum of the
\* amounts of that user's credit_logs rows, whatever mix of useCredits,
\* generateInsights and getTopPages requests has run.  Stated for the states
\* in which no request is between two of its steps, where it is weakest.
C5_LedgerMatchesBalance ==
    AtRest => \A u \in Users :
                 credits[u] = InitialCredits - SumAmounts(credit_logs, u)

(***************************************************************************)
(* Claims about the rate limiter                                           *)
(***************************************************************************)
\* The window keys on which every completed call had one limit and one
\* window length and ran inside the window.
OneWindow(wk) == rlhist[wk].n > 0 /\ ~rlhist[wk].mixed

\* The slot whose call on wk completed last (the calls are sequential).
LastOn(p, wk) == rlpc[p] = "done" /\ MyKey(p) = wk

AtMostLimitAllowed(wk) ==
    /\ rlhist[wk].allowed <= rlhist[wk].limit
    /\ \A p \in Procs :
          (LastOn(p, wk) /\ rlhist[wk].n = rlhist[wk].limit + 1)
              => rlresp[p].limited

KthResult(p, wk) ==
    LET k == rlhist[wk].n
        N == rlhist[wk].limit
    IN  IF k <= N
        THEN /\ ~rlresp[p].limited
             /\ rlresp[p].remaining = N - k
        ELSE /\ rlresp[p].limited
             /\ rlresp[p].remaining = 0
             /\ rlresp[p].reset = rlcur[p].reset
             /\ N >= 1 => rlcur[p].stored /\ rlcur[p].count = N
             /\ kv[wk].present =>
                   kv[wk].count = rlcur[p].count /\ kv[wk].reset = rlcur[p].reset

C8_CountNeverDecreases ==
    [][\A wk \in WindowKeys :
          (kv[wk].present /\ kv'[wk].present /\ clock' <= kv[wk].reset)
              => kv'[wk].count >= kv[wk].count]_vars

\* C9: if a key-value store read or write fails during checkRateLimit, the
\* call returns limited = false with remaining equal to the full limit, and
\* raises no error to the caller.
C9_FailOpen ==
    \A p \in Procs :
        (rlpc[p] = "done" /\ rlfailed[p]) =>
            /\ rlresp[p].kind = "return"
            /\ ~rlresp[p].limited
            /\ rlresp[p].remaining = rlreq[p].limit

\* C9 witness: the read found a stored entry, the write that followed failed,
\* and the call was let through with the full limit remaining.
C9_Witness ==
    \E p \in Procs :
        /\ rlpc[p] = "done" /\ rlfailed[p]
        /\ rlreq[p].limit >= 1
        /\ rlcur[p].stored
        /\ ~rlresp[p].limited /\ rlresp[p].remaining = rlreq[p].limit

C13_SameContentOneCharge ==
    \A u \in Users :
        prev[u].n = 2 =>
            /\ prev[u].first = prev[u].content
            /\ prev[u].firstBefore - credits[u] <= 1

\* C14: a generateInsights request that is not served from a same-day record
\* and reads a balance below 1 ends with the 402 response; it makes no
\* request to the AI provider and the tables stay as they were when it began.
C14_RejectedBeforeAiCall ==
    \A p \in Procs :
        ( /\ track
          /\ req[p].handler = "generateInsights"
          /\ local[p].gated
          /\ user[p] < 1 )
        => /\ local[p].ai = "none"
           /\ local[p].batches = 0
           /\ credits = before[p].credits
           /\ credit_logs = before[p].credit_logs
           /\ insights = before[p].insights
           /\ pc[p] \in {"gi_check", "done"}
           /\ pc[p] = "done" => resp[p].status = 402 /\ resp[p].body = "insufficient"

\* C14 witness: a forced request of a user whose record of the day is stored
\* and whose balance is 0 was answered 402.
C14_Witness ==
    \E p \in Procs :
        /\ track
        /\ pc[p] = "done" /\ req[p].handler = "generateInsights"
        /\ local[p].gated /\ user[p] < 1
        /\ req[p].force /\ local[p].existing # 0
        /\ resp[p].status = 402
        /\ insights = before[p].insights /\ insights # <<>>

\* The row a charge for an insight would add to credit_logs.
InsightCharge(u) == [user_id |-> u, amount |-> 1, purpose |-> "insight_generation"]

\* C15: every generateInsights request that passes the same-day lookup and
\* the credit gate has charged exactly one credit, with a credit_logs row of
\* purpose insight_generation, by the time the AI provider is called, and
\* the charge stands when the request ends, however the AI call ended.
C15_ChargedOnceBeforeAiCall ==
    \A p \in Procs :
        ( /\ track
          /\ req[p].handler = "generateInsights"
          /\ local[p].gated
          /\ user[p] >= 1
          /\ local[p].ai # "none" )
        => LET u == req[p].userId
           IN  /\ credits[u] = before[p].credits[u] - 1
               /\ CopiesIn(InsightCharge(u), credit_logs) =
                     CopiesIn(InsightCharge(u), before[p].credit_logs) + 1

\* The ways the AI call fails: no document, or a document lacking required
\* keys.
AiFailed(p) == local[p].ai \in AiFailures \cup {"missingkeys"}

\* C16: for every failure of the AI call (network error or timeout, non-2xx
\* status, non-JSON content, missing required keys) the request ends with a
\* success response that carries the fallback document.
C16_FailureYieldsFallback ==
    \A p \in Procs :
        (pc[p] = "done" /\ req[p].handler = "generateInsights" /\ AiFailed(p))
        => /\ resp[p].status = 200
           /\ resp[p].content = FallbackDocument

\* C17: the insights table holds at most one record per (user, site, date,
\* kind), and a request without the force flag that is served from the
\* table returns the content of the latest generation for its key.
C17_OneRecordPerKey ==
    /\ \A u \in Users, s \in Sites : Cardinality(Matching(insights, u, s, Today)) <= 1
    /\ \A p \in Procs :
          (pc[p] = "done" /\ resp[p].body = "stored") =>
              LET hits == Matching(insights, req[p].userId, req[p].siteUrl, Today)
                  last == CHOOSE i \in hits : \A j \in hits : j <= i
              IN  resp[p].content = insights[last].content

C11_AtMostOneRetry ==
    \A p \in Procs :
        req[p].handler = "getProperties" =>
            /\ gw[p].upstream <= 2
            /\ gw[p].evicted <= 1

\* A getProperties request whose first upstream call was answered 401 and
\* whose retried call succeeded.
RetrySucceeded(p) ==
    /\ pc[p] = "done"
    /\ req[p].handler = "getProperties"
    /\ gw[p].firstStatus = 401
    /\ gw[p].upstream = 2
    /\ resp[p].status = 200

\* C12: when the first upstream call of getProperties is answered 401 and
\* the retried call succeeds, the response carries the retried call's
\* payload, the token was evicted before the refresh, and exactly one call
\* to the OAuth token endpoint was made during the request.
C12_OneRefreshInRequest ==
    \A p \in Procs :
        RetrySucceeded(p) =>
            /\ resp[p].payload = 2
            /\ gw[p].evicted = 1
            /\ gw[p].oauthAtEvict = 0
            /\ gw[p].oauth = 1

\* C12, as the code has it: for a request running alone the response carries
\* the retried call's payload, the token was evicted once, and exactly one
\* call to the OAuth token endpoint followed the eviction; a request that
\* found the cache empty when it began made one more before its first
\* upstream call, two in all.
C12_OneRefreshAfterEviction ==
    \A p \in Procs :
        RetrySucceeded(p) =>
            /\ resp[p].payload = 2
            /\ gw[p].evicted = 1
            /\ gw[p].oauthAtEvict \in {0, 1}
            /\ gw[p].oauth = gw[p].oauthAtEvict + 1

\* C12 witness: the request found the cache empty, refreshed, was answered
\* 401, evicted the new token, refreshed again and its retry succeeded.
C12_Witness ==
    \E p \in Procs :
        /\ RetrySucceeded(p)
        /\ resp[p].payload = 2
        /\ gw[p].oauthAtEvict = 1
        /\ gw[p].oauth = 2

\* The responses that report an authentication failure.
AuthFailure(r) ==
    /\ r.status \in {400, 401}
    /\ r.body \in {"not_connected", "no_refresh_token", "refresh_failed", "no_new_token"}

\* C19: while a user has no stored refresh token, a handler's token
\* acquisition for that user sends nothing to the OAuth token endpoint, gets
\* no token, and the request ends with an authentication error.
C19_NoRefreshTokenNoOAuth ==
    \A p \in Procs :
        ( /\ req[p].handler \in GatewayHandlers
          /\ gw[p].acquired
          /\ gsc_refresh_token[req[p].userId] = 0 )
        => /\ gw[p].oauth = 0
           /\ gw[p].accessToken = 0
           /\ pc[p] \in {"rt_select", "done"}
           /\ pc[p] = "done" => AuthFailure(resp[p])

\* C20: when the cache holds an access token for the user, the handler's
\* token acquisition takes that token and goes on to the upstream call: it
\* sends nothing to the OAuth token endpoint and leaves the refresh token,
\* the connection flag and the cache as they are.
C20_CacheHitReturnsToken ==
    [][ \A p \in Procs :
          ( /\ pc[p] = "tk_get"
            /\ pc'[p] # "tk_get"
            /\ auth_store[req[p].userId] # 0 )
          => /\ gw'[p].accessToken = auth_store[req[p].userId]
             /\ pc'[p] = "up_fetch"
             /\ gw'[p].oauth = gw[p].oauth
             /\ issued' = issued
             /\ gsc_refresh_token' = gsc_refresh_token
             /\ gsc_connected' = gsc_connected
             /\ auth_store' = auth_store ]_vars

\* C20 witness: a handler took the cached token and is about to query the
\* upstream, having sent nothing to the OAuth token endpoint.
C20_Witness ==
    \E p \in Procs :
        /\ pc[p] = "up_fetch"
        /\ gw[p].hit
        /\ gw[p].accessToken # 0
        /\ gw[p].accessToken = auth_store[req[p].userId]
        /\ gw[p].oauth = 0

C22_RefusedRefreshDisconnects ==
    \A p \in Procs :
        gw[p].oauthAtFail # 0 =>
            /\ gw[p].oauth = gw[p].oauthAtFail
            /\ pc[p] \in {"rt_disconnect", "done"}
            /\ pc[p] = "done" =>
                  /\ resp[p].status = 401
                  /\ resp[p].body = "refresh_failed"
                  /\ ~gsc_connected[req[p].userId]
                  /\ req[p].handler \in GatewayHandlers =>
                        auth_store[req[p].userId] = 0
                  /\ req[p].handler = "refreshToken" => gw[p].newToken = 0

\* C22 witness: getProperties was answered 401 by the upstream, evicted the
\* token, and the refresh that followed was refused.
C22_Witness ==
    \E p \in Procs :
        /\ pc[p] = "done" /\ req[p].handler = "getProperties"
        /\ gw[p].evicted = 1
        /\ gw[p].oauthAtFail # 0
        /\ resp[p].status = 401 /\ resp[p].body = "refresh_failed"
        /\ ~gsc_connected[req[p].userId]
        /\ auth_store[req[p].userId] = 0

\* A request whose refresh has just succeeded: the token is written and the
\* cache not read again yet, or POST /auth/refresh has answered.
JustRefreshed(p) ==
    \/ pc[p] = "tk_reget"
    \/ pc[p] = "done" /\ resp[p].body = "refreshed"

\* C23: after a successful refresh the cache holds the newly issued access
\* token (until the TTL it was written with, expires_in, runs out) and the
\* user's connection flag is true.
C23_RefreshedAndConnected ==
    \A p \in Procs :
        JustRefreshed(p) =>
            /\ auth_store[req[p].userId] \in {gw[p].newToken, 0}
            /\ gsc_connected[req[p].userId]

\* A request that found the cache empty when it began, whose refreshes
\* succeeded and that has ended.
RefreshedAndDone(p) ==
    /\ pc[p] = "done"
    /\ req[p].handler \in GatewayHandlers
    /\ gw[p].newToken # 0
    /\ gw[p].oauthAtFail = 0
    /\ gw[p].evicted > 0 => gw[p].oauthAtEvict > 0

\* C24: of two requests of one user in flight together that both missed the
\* cache and both refreshed successfully, each obtains an issued token
\* and goes on to the upstream; when neither evicted, the cache ends with a
\* token one of them wrote.
C24_BothObtainToken ==
    \A p, q \in Procs :
        ( /\ p # q
          /\ req[p].userId = req[q].userId
          /\ RefreshedAndDone(p) /\ RefreshedAndDone(q) )
        => /\ gw[p].accessToken \in 1 .. issued
           /\ resp[p].body # "no_new_token"
           /\ (gw[p].evicted = 0 /\ gw[q].evicted = 0) =>
                 auth_store[req[p].userId] \in {gw[p].newToken, gw[q].newToken}

SiteQueryHandlers == {"fetchGSCData", "getTopPages", "getInsights"}

\* C26: a per-site analytics query that the upstream answers with 404 ends
\* with a success response (an empty row set, notFound and suggestions), not
\* with an error.
C26_NotFoundIsSuccess ==
    \A p \in Procs :
        ( /\ pc[p] = "done"
          /\ req[p].handler \in SiteQueryHandlers
          /\ gw[p].lastStatus = 404 )
        => /\ resp[p].status = 200
           /\ resp[p].body = "not_found"

(***************************************************************************)
(* Claims about the response cache                                         *)
(***************************************************************************)
\* A getCachedData call that has returned.
GetDone(p) == cc[p].op = "get" /\ cc[p].pc = "done"

\* C27: getCachedData returns a payload only when the entry it read has
\* expiresAt >= now at the read, and the payload is that entry's; a read of
\* an entry whose expiresAt has passed returns a miss and, the delete not
\* failing, the entry is gone from the store though the store still held it.
C27_HitOnlyUnexpired ==
    \A p \in Procs :
        GetDone(p) =>
            /\ cc[p].result = "hit" =>
                  /\ cc[p].found
                  /\ cc[p].read.expiresAt >= cc[p].now
                  /\ cc[p].payload = cc[p].read.data
            /\ (cc[p].found /\ cc[p].read.expiresAt < cc[p].now) =>
                  /\ cc[p].result = "miss"
                  /\ ~cc[p].failed => ~cache[cc[p].key].present

\* C27 witness: the store still held an entry whose expiresAt had passed;
\* the read returned a miss and deleted it.
C27_Witness ==
    \E p \in Procs :
        /\ GetDone(p)
        /\ cc[p].found /\ cc[p].read.expiresAt < cc[p].now
        /\ cc[p].result = "miss" /\ ~cc[p].failed
        /\ ~cache[cc[p].key].present

\* C28: after setCachedData(key, payload, ttl) has written, with no set on
\* the key since, a getCachedData(key) whose read is made before ttl seconds
\* have passed since the set returns payload (the read not failing), and one
\* whose read is made later than that returns a miss.
C28_SetThenGet ==
    \A p \in Procs :
        (GetDone(p) /\ lastSet[cc[p].key].valid) =>
            LET last == lastSet[cc[p].key]
                elapsed == cc[p].now - last.at
            IN  /\ (~cc[p].failed /\ elapsed < last.ttl * MsPerSecond) =>
                      /\ cc[p].result = "hit"
                      /\ cc[p].payload = last.data
                /\ elapsed > last.ttl * MsPerSecond => cc[p].result = "miss"
                /\ cc[p].result = "hit" => cc[p].payload = last.data

\* C28 witness: a payload written with a ttl of two ticks was returned by a
\* read made one tick later.
C28_Witness ==
    \E p \in Procs :
        /\ GetDone(p) /\ lastSet[cc[p].key].valid
        /\ cc[p].result = "hit"
        /\ cc[p].payload = lastSet[cc[p].key].data
        /\ lastSet[cc[p].key].ttl = 2 * (TickMs \div MsPerSecond)
        /\ cc[p].now = lastSet[cc[p].key].at + TickMs

SamePairs(a, b) == {a[i] : i \in DOMAIN a} = {b[i] : i \in DOMAIN b}

\* C29: for one userId and endpoint, generateGSCacheKey returns the same key
\* for two params objects that hold the same name/value pairs, whatever the
\* order in which the pairs were inserted.
C29_InsertionOrderIgnored ==
    (keyCall.pc = "done" /\ SamePairs(keyCall.first, keyCall.second)) =>
        keyCall.firstKey = keyCall.secondKey

\* C29 witness: two objects with the same pairs inserted in different orders
\* got one key.
C29_Witness ==
    /\ keyCall.pc = "done"
    /\ Len(keyCall.first) >= 2
    /\ keyCall.first # keyCall.second
    /\ SamePairs(keyCall.first, keyCall.second)
    /\ keyCall.firstKey = keyCall.secondKey

\* The required fields the body does not have.
AbsentRequired ==
    {f \in {fieldCheck.requiredFields[i] : i \in DOMAIN fieldCheck.requiredFields} :
        ~HasField(fieldCheck.body, f)}

\* C30: validateRequiredFields throws ValidationError exactly when a required
\* field is missing from the body, and missingFields then holds all the
\* required fields that are missing.
C30_ThrowsExactlyWhenMissing ==
    fieldCheck.pc = "done" =>
        /\ fieldCheck.thrown = "ValidationError" <=> AbsentRequired # {}
        /\ fieldCheck.thrown = "ValidationError" =>
              {fieldCheck.missingFields[i] : i \in DOMAIN fieldCheck.missingFields}
                  = AbsentRequired

(***************************************************************************)
(* Claims about getInsights, error handling and the remaining handlers     *)
(***************************************************************************)
\* C31: a getInsights request calls the limiter only after validation has
\* passed, reads the token only after the limiter answered not limited, and
\* queries the upstream only after it read the token; a request the limiter
\* answered limited ends with status 429 carrying the limiter's remaining and
\* reset, without a token read, a refresh or an upstream request.
C31_StepsInOrder ==
    \A p \in Procs :
        req[p].handler = "getInsights" =>
            /\ resp[p].body = "validation" => ~gw[p].checked
            /\ gw[p].acquired => (gw[p].checked /\ rlpc[p] = "done" /\ ~rlresp[p].limited)
            /\ gw[p].upstream > 0 => gw[p].acquired
            /\ (gw[p].checked /\ rlpc[p] = "done" /\ rlresp[p].limited) =>
                  /\ pc[p] \in {"in_wait", "done"}
                  /\ ~gw[p].acquired /\ gw[p].oauth = 0 /\ gw[p].upstream = 0
                  /\ pc[p] = "done" =>
                        /\ resp[p].status = 429
                        /\ resp[p].body = "rate_limited"
                        /\ resp[p].remaining = rlresp[p].remaining
                        /\ resp[p].reset = rlresp[p].reset

\* C31 witness: a request found the limit reached and ended with status 429
\* and the window's reset time, having read no token.
C31_Witness ==
    \E p \in Procs :
        /\ req[p].handler = "getInsights" /\ pc[p] = "done"
        /\ gw[p].checked /\ rlresp[p].limited
        /\ resp[p].status = 429
        /\ resp[p].reset = rlresp[p].reset /\ resp[p].reset > 0
        /\ ~gw[p].acquired /\ gw[p].upstream = 0

\* C32: every generateInsights request that has ended has returned a
\* response.
C32_AlwaysResponds ==
    \A p \in Procs :
        (pc[p] = "done" /\ req[p].handler = "generateInsights") =>
            resp[p].status # 0

\* C33: a wrapped handler that throws still ends with a response: for a
\* thrown APIError subclass one with that error's status and code, for any
\* other error one with status 500 and code INTERNAL_ERROR.
C33_ThrownBecomesResponse ==
    (wrapped.pc = "done" /\ wrapped.outcome = "throws") =>
        /\ wrapped.response.status # 0
        /\ wrapped.thrown.isAPIError =>
              /\ wrapped.response.status = wrapped.thrown.status
              /\ wrapped.response.code = wrapped.thrown.code
        /\ ~wrapped.thrown.isAPIError =>
              /\ wrapped.response.status = 500
              /\ wrapped.response.code = "INTERNAL_ERROR"

\* C33 witness: an error that is no APIError and carries a status of its own
\* was answered with 500 and INTERNAL_ERROR.
C33_Witness ==
    /\ wrapped.pc = "done" /\ wrapped.outcome = "throws"
    /\ ~wrapped.thrown.isAPIError /\ wrapped.thrown.status = 404
    /\ wrapped.response.status = 500
    /\ wrapped.response.code = "INTERNAL_ERROR"

\* C34: no step of a useCredits request raises the balance of its user.
C34_NeverIncreasesBalance ==
    [][ \A p \in Procs :
          (req[p].handler = "useCredits" /\ pc[p] = "uc_check")
          => credits'[req[p].userId] <= credits[req[p].userId] ]_vars

\* C35: when two slots have each taken a generateInsights request without
\* the force flag for the same user and site (the day is the same), at most
\* one credit of that user has been deducted and at most one insight record
\* is stored for that user, site and day.
C35_OneChargeOneRecord ==
    \A p, q \in Procs :
        ( /\ p # q
          /\ req[p].handler = "generateInsights" /\ req[q].handler = "generateInsights"
          /\ ~req[p].force /\ ~req[q].force
          /\ req[p].userId = req[q].userId
          /\ req[p].siteUrl = req[q].siteUrl /\ req[p].siteUrl \in Sites )
        => /\ credits[req[p].userId] >= startCredits[req[p].userId] - 1
           /\ Cardinality(Matching(insights, req[p].userId, req[p].siteUrl, Today)) <= 1


\* C36: in every reachable state a user whose gsc_connected flag is 1 has a
\* refresh token stored, whatever sequence of OAuth callbacks, token
\* refreshes and scheduled refreshes has run, steps of unfinished requests
\* included.
C36_ConnectedHasRefreshToken ==
    \A u \in Users : gsc_connected[u] => gsc_refresh_token[u] # 0

\* C36 witness: one user is connected by a callback, with a refresh token
\* and a cached access token, another was disconnected by a refused refresh
\* and keeps the refresh token.
C36_Witness ==
    \E u, v \in Users :
        /\ gsc_connected[u] /\ gsc_refresh_token[u] # 0 /\ auth_store[u] # 0
        /\ ~gsc_connected[v] /\ gsc_refresh_token[v] # 0
        /\ \E p \in Procs :
              /\ pc[p] = "done" /\ req[p].handler = "refreshToken"
              /\ req[p].userId = v /\ resp[p].status = 401
        /\ \E q \in Procs :
              /\ pc[q] = "done" /\ req[q].handler = "handleCallback"
              /\ req[q].userId = u /\ resp[q].status = 200


\* C37: in getTopPages the page limit chosen for the upstream query is at
\* most 50; it exceeds 10 only in a request that goes on to deduct one
\* credit, and that deduction is the request's only change of a balance; a
\* request without limit, with limit <= 10 or from a user whose balance
\* reads 0 uses limit 10 and goes straight to the query, changing no
\* balance.
C37_PageLimitNeedsCredit ==
    [][ \A p \in Procs :
          req[p].handler = "getTopPages" =>
            /\ (pc[p] = "tp_select" /\ pc'[p] # "tp_select") =>
                  /\ credits' = credits
                  /\ local'[p].pageLimit <= MaxPageLimit
                  /\ local'[p].pageLimit > DefaultPageLimit => pc'[p] = "tp_update"
                  /\ ( \/ ~req[p].limit.present
                       \/ req[p].limit.value <= DefaultPageLimit
                       \/ credits[req[p].userId] = 0 )
                     => /\ local'[p].pageLimit = DefaultPageLimit
                        /\ pc'[p] = "tp_fetch"
            /\ (pc[p] = "tp_update" /\ pc'[p] # "tp_update") =>
                  /\ credits' = [credits EXCEPT ![req[p].userId] = @ - 1]
                  /\ local'[p] = local[p]
                  /\ pc'[p] = "tp_fetch"
            /\ (pc[p] = "tp_fetch" /\ pc'[p] = "done") =>
                  /\ credits' = credits
                  /\ resp'[p].body = "pages" => resp'[p].limit = local[p].pageLimit ]_vars

\* C37 witness: a request asking for 60 pages was answered with 50, and a
\* request asking for 11 pages from a user without credits with 10.
C37_Witness ==
    \E p, q \in Procs :
        /\ pc[p] = "done" /\ req[p].handler = "getTopPages"
        /\ req[p].limit.value = 60 /\ resp[p].body = "pages" /\ resp[p].limit = MaxPageLimit
        /\ pc[q] = "done" /\ req[q].handler = "getTopPages"
        /\ req[q].limit.value = 11 /\ user[q] = 0
        /\ resp[q].body = "pages" /\ resp[q].limit = DefaultPageLimit


\* The documents parsed from a successful AI response, defaults filled in.
AiDocuments == {Patch(c) : c \in AiContents}

\* C38: every record of the insights table holds a document parsed from a
\* successful AI response, never the fallback document; a response that
\* carries the fallback document comes from a step that stores nothing and
\* changes no balance; and a response served from a stored record does not
\* carry the fallback document.
C38_FallbackNeverStored ==
    [][ /\ \A i \in DOMAIN insights' :
              /\ insights'[i].content \in AiDocuments
              /\ insights'[i].content # FallbackDocument
        /\ \A p \in Procs :
              /\ ( /\ pc[p] # "done" /\ pc'[p] = "done"
                   /\ resp'[p].content = FallbackDocument )
                 => /\ insights' = insights
                    /\ credits' = credits
              /\ ( /\ pc[p] = "gi_content" /\ pc'[p] = "done"
                   /\ resp'[p].body = "stored" )
                 => /\ resp'[p].content \in AiDocuments
                    /\ resp'[p].content # FallbackDocument ]_vars

\* C38 witness: a forced regeneration whose AI call failed was answered with
\* the fallback document while the table holds an earlier record; the table
\* and the balances are those the request found.
C38_Witness ==
    \E p \in Procs :
        /\ track
        /\ pc[p] = "done" /\ req[p].handler = "generateInsights" /\ req[p].force
        /\ local[p].ai \in AiFailures
        /\ resp[p].content = FallbackDocument
        /\ insights # <<>> /\ insights = before[p].insights
        /\ credits = before[p].credits


\* The reset times of the limited results returned so far on a rate limit
\* key, over its window keys.
LimitedResets(key) ==
    UNION {rlhist[wk].limitedResets : wk \in {k \in WindowKeys : k[1] = key}}

\* C39: the clock never decreasing, when checkRateLimit has returned limited
\* with reset time R on a key, a call on that key with a limit of at least 1
\* whose time is later than R is counted as the first call of a window when
\* the entry it reads is absent or is that of the earlier window (not
\* limited, remaining = limit - 1, unless the store fails, and then it is
\* not limited either), and when it is limited, the entry that limits it is
\* one of a later window, its reset time later than R.
C39_FreshWindowAfterReset ==
    [][ \A p \in Procs :
          ( /\ track
            /\ rlpc[p] \in {"rl_get", "rl_reset", "rl_incr"} /\ rlpc'[p] = "done"
            /\ rlreq[p].limit >= 1 )
          => \A R \in LimitedResets(rlreq[p].key) :
                rlnow[p] > R =>
                  /\ rlresp'[p].limited => rlresp'[p].reset > R
                  /\ rlfailed'[p] => ~rlresp'[p].limited
                  /\ ( /\ ~rlfailed'[p]
                       /\ LET cur == IF rlpc[p] = "rl_get"
                                     THEN Current(kv[MyKey(p)], rlnow[p], rlreq[p].window)
                                     ELSE rlcur[p]
                           IN  ~cur.stored \/ cur.reset <= R )
                     => /\ ~rlresp'[p].limited
                        /\ rlresp'[p].remaining = rlreq[p].limit - 1 ]_vars

\* C39 witness: a call was limited with reset time R, and a call made later
\* than R on the same key, with limit 1, has returned not limited with
\* remaining 0.
C39_Witness ==
    \E p \in Procs :
        /\ track
        /\ rlpc[p] = "done" /\ ~rlfailed[p]
        /\ rlreq[p].limit = 1
        /\ \E R \in LimitedResets(rlreq[p].key) : rlnow[p] > R
        /\ ~rlresp[p].limited /\ rlresp[p].remaining = 0


\* C40: when kv.get, kv.delete or kv.put throws inside getCachedData or
\* setCachedData, the call returns all the same: getCachedData returns null
\* (a miss, no payload), setCachedData returns nothing, and the store is as
\* it was before the failed operation.
C40_StoreFailureStaysInside ==
    [][ \A p \in Procs :
          ( /\ cc[p].pc \in {"c_get", "c_delete", "c_put"}
            /\ cc'[p].failed )
          => /\ cc'[p].pc = "done"
             /\ cache' = cache
             /\ cc[p].op = "get" => cc'[p].result = "miss" /\ cc'[p].payload = ""
             /\ cc[p].op = "set" => cc'[p].result = "none" ]_vars

\* C40 witness: a getCachedData call found an expired entry, its kv.delete
\* threw, and the call returned a miss with the entry still in the store.
C40_Witness ==
    \E p \in Procs :
        /\ cc[p].pc = "done" /\ cc[p].op = "get"
        /\ cc[p].failed /\ cc[p].found
        /\ cc[p].result = "miss"
        /\ cache[cc[p].key].present

====
